---- MODULE Spec2Model ----
(***************************************************************************)
(* A model of the data standardization layer of the TCP contract           *)
(* processor (src/src/data_standardization.py).                            *)
(*                                                                         *)
(* Python strings are TLA+ strings (TLC treats a string as a sequence of   *)
(* one-character strings: Len, \o, SubSeq, Head and Tail apply to them).   *)
(* Python values of different types are tagged records, so that a string   *)
(* is never compared with a number.                                        *)
(***************************************************************************)
EXTENDS Integers, Sequences, FiniteSets, TLC

VARIABLES
    fn,            \* the normalizer called last ("" before any call)
    arg,           \* the raw value handed to the normalizers
    ret,           \* what the last call returned (or the exception it raised)
    raw_data,      \* the raw record handed to standardize_contract_data
    standardized,  \* the record standardize_contract_data returned
    pad_year,      \* whether the platform's strftime("%Y") zero-pads years below 1000
    contracts,     \* the list of records handed to create_columnar_dataframe
    df,            \* the DataFrame create_columnar_dataframe returned
    db,            \* TCPDatabase.contracts of the CLI's global db
    session,       \* st.session_state.contracts of the web app
    op,            \* the CLI or web operation called last ("" before any)
    query_name,    \* the vessel name handed to the last query
    returned,      \* what the last CLI or web operation returned
    clock,         \* the readings datetime.now() has given so far
    added,         \* what add_contract was handed since the database was made or cleared
    outcome,       \* how the steps of the last processing went
    pdf_files,     \* the files the last process_all_tcps found
    failed,        \* the list failed of the last process_all_tcps
    tmp_files,     \* the temporary files that exist
    tmp_path,      \* the temporary file the last process_pdf_file made (0: none yet)
    max_retries,   \* the max_retries of the last call of extract_contract_data
    attempt,       \* the loop variable of its retry loop (0 outside the loop)
    requests,      \* the API requests the call has issued
    outcomes,      \* how each attempt of the call went, in order: "failed" or "ok"
    response_text, \* the response text of the last request, as handed to json.loads
    last_error,    \* the message of the last failed attempt
    extracted,     \* how the call ended: the dict returned, None, or the exception
    heap,          \* the dict objects of concurrent callers: object i is heap[i]
    frames         \* the frame of each concurrent call of standardize_contract_data

\* The variables of the table builder.
tableVars == <<contracts, df>>

\* The variables of the CLI and the web app.
batchVars == <<pdf_files, failed>>

webVars == <<tmp_files, tmp_path>>

cliVars ==
    <<db, session, op, query_name, returned, clock, added, outcome, batchVars, webVars>>

\* The variables the normalizers and standardize_contract_data never touch.
\* The variables of extract_contract_data.
extractVars ==
    <<max_retries, attempt, requests, outcomes, response_text, last_error, extracted>>

\* The variables of concurrent calls of standardize_contract_data.
callVars == <<heap, frames>>

outside == <<tableVars, cliVars, extractVars, callVars>>

vars == <<fn, arg, ret, raw_data, standardized, pad_year, outside>>

(***************************************************************************)
(* Python values.                                                          *)
(***************************************************************************)
None == [t |-> "None"]

Str(s) == [t |-> "str", s |-> s]

PyInt(n) == [t |-> "int", n |-> n]

\* True and False: json.loads gives them for the JSON tokens true and false.
PyBool(b) == [t |-> "bool", b |-> b]

\* A finite float is the decimal m * 10^(-e), e the number of fraction digits
\* and m without trailing zeros when e > 0.  The model's inputs stay below the
\* 15 significant digits a double represents exactly.
RECURSIVE Float(_, _)
Float(m, e) ==
    IF e > 0 /\ m % 10 = 0 THEN Float(m \div 10, e - 1)
    ELSE [t |-> "float", k |-> "fin", m |-> m, e |-> e]

Inf == [t |-> "float", k |-> "inf"]

NegInf == [t |-> "float", k |-> "-inf"]

NaN == [t |-> "float", k |-> "nan"]

\* The outcome of a call that ended in an exception.
Raised(exc) == [t |-> "raise", exc |-> exc]

\* A call that has not been made yet.
NoCall == [t |-> "nocall"]

IsStr(v) == v.t = "str"

\* isinstance(value, (int, float)): bool is a subclass of int.
IsNumber(v) == v.t \in {"int", "float", "bool"}

IsFinite(v) == v.t = "int" \/ (v.t = "float" /\ v.k = "fin")

(***************************************************************************)
(* Characters.                                                             *)
(***************************************************************************)
Digits == "0123456789"

Lowers == "abcdefghijklmnopqrstuvwxyz"

Uppers == "ABCDEFGHIJKLMNOPQRSTUVWXYZ"

CharAt(s, i) == SubSeq(s, i, i)

CharsOf(s) == {CharAt(s, i) : i \in 1..Len(s)}

DigitSet == CharsOf(Digits)

LowerSet == CharsOf(Lowers)

UpperSet == CharsOf(Uppers)

\* What \s and str.strip() take for whitespace (the ASCII ones TLA+ can write).
SpaceSet == {" ", "\t", "\n", "\r", "\f"}

IsDigit(c) == c \in DigitSet

IsSpace(c) == c \in SpaceSet

IsAlpha(c) == c \in LowerSet \cup UpperSet

\* \w of the regular expressions.
IsWord(c) == IsAlpha(c) \/ IsDigit(c) \/ c = "_"

DigitVal(c) == CHOOSE d \in 0..9 : CharAt(Digits, d + 1) = c

UpperChar(c) ==
    IF c \in LowerSet
    THEN CharAt(Uppers, CHOOSE i \in 1..26 : CharAt(Lowers, i) = c)
    ELSE c

LowerChar(c) ==
    IF c \in UpperSet
    THEN CharAt(Lowers, CHOOSE i \in 1..26 : CharAt(Uppers, i) = c)
    ELSE c

(***************************************************************************)
(* Strings: the str methods and re functions the normalizers use.          *)
(***************************************************************************)
RECURSIVE Upper(_)
Upper(s) == IF s = "" THEN "" ELSE UpperChar(Head(s)) \o Upper(Tail(s))

RECURSIVE Lower(_)
Lower(s) == IF s = "" THEN "" ELSE LowerChar(Head(s)) \o Lower(Tail(s))

RECURSIVE LStrip(_)
LStrip(s) == IF s # "" /\ IsSpace(Head(s)) THEN LStrip(Tail(s)) ELSE s

RECURSIVE RStrip(_)
RStrip(s) ==
    IF s # "" /\ IsSpace(CharAt(s, Len(s)))
    THEN RStrip(SubSeq(s, 1, Len(s) - 1))
    ELSE s

\* str.strip()
Strip(s) == RStrip(LStrip(s))

\* re.sub(r'\s+', ' ', s)
RECURSIVE CollapseWs(_)
CollapseWs(s) ==
    IF s = "" THEN ""
    ELSE IF IsSpace(Head(s)) THEN " " \o CollapseWs(LStrip(s))
    ELSE Head(s) \o CollapseWs(Tail(s))

Drop(s, n) == SubSeq(s, n + 1, Len(s))

StartsWith(s, p) == Len(p) <= Len(s) /\ SubSeq(s, 1, Len(p)) = p

\* p in s
Contains(s, p) ==
    \E i \in 1..(Len(s) - Len(p) + 1) : SubSeq(s, i, i + Len(p) - 1) = p

AllChars(s, Class(_)) == \A i \in 1..Len(s) : Class(CharAt(s, i))

\* The number a run of decimal digits writes.
RECURSIVE DigitsVal(_)
DigitsVal(s) ==
    IF s = "" THEN 0
    ELSE 10 * DigitsVal(SubSeq(s, 1, Len(s) - 1)) + DigitVal(CharAt(s, Len(s)))

RECURSIVE NatStr(_)
NatStr(n) ==
    IF n < 10 THEN CharAt(Digits, n + 1)
    ELSE NatStr(n \div 10) \o CharAt(Digits, (n % 10) + 1)

RECURSIVE ZeroPad(_, _)
ZeroPad(s, w) == IF Len(s) >= w THEN s ELSE ZeroPad("0" \o s, w)

Abs(n) == IF n < 0 THEN -n ELSE n

RECURSIVE Pow10(_)
Pow10(e) == IF e = 0 THEN 1 ELSE 10 * Pow10(e - 1)

\* str(value): the model's floats are all in the range Python writes in
\* positional notation (1e-4 <= |x| < 1e16).
PyStr(v) ==
    CASE v.t = "str" -> v.s
      [] v.t = "int" -> (IF v.n < 0 THEN "-" ELSE "") \o NatStr(Abs(v.n))
      [] v.t = "float" /\ v.k = "fin" ->
            LET d == ZeroPad(NatStr(Abs(v.m)), v.e + 1)
                ip == SubSeq(d, 1, Len(d) - v.e)
                fp == IF v.e = 0 THEN "0" ELSE SubSeq(d, Len(d) - v.e + 1, Len(d))
            IN  (IF v.m < 0 THEN "-" ELSE "") \o ip \o "." \o fp
      [] v.t = "float" /\ v.k = "inf" -> "inf"
      [] v.t = "float" /\ v.k = "-inf" -> "-inf"
      [] v.t = "float" /\ v.k = "nan" -> "nan"
      [] v.t = "bool" -> (IF v.b THEN "True" ELSE "False")
      [] OTHER -> "None"

\* `not value`
Falsy(v) ==
    \/ v.t = "None"
    \/ v.t = "str" /\ v.s = ""
    \/ v.t = "int" /\ v.n = 0
    \/ v.t = "float" /\ v.k = "fin" /\ v.m = 0
    \/ v.t = "bool" /\ ~v.b

\* value == "null"
EqNull(v) == v.t = "str" /\ v.s = "null"

\* value == "-"
EqDash(v) == v.t = "str" /\ v.s = "-"

\* pd.isna(value) on a scalar
isna(v) == v.t = "None" \/ (v.t = "float" /\ v.k = "nan")

(***************************************************************************)
(* datetime.strptime and strftime, for the directives DATE_FORMATS uses.   *)
(* strptime turns the format into a regular expression: a directive        *)
(* becomes a group, a run of whitespace becomes \s+, any other character   *)
(* stands for itself; the text must match it to its end.                   *)
(***************************************************************************)
MonthNames ==
    <<"January", "February", "March", "April", "May", "June", "July",
      "August", "September", "October", "November", "December">>

\* %b: the abbreviated month names (C locale).
MonthAbbrs == [i \in 1..12 |-> SubSeq(MonthNames[i], 1, 3)]

IsLeap(y) == (y % 4 = 0 /\ y % 100 # 0) \/ y % 400 = 0

DaysIn(y, m) ==
    IF m = 2 THEN (IF IsLeap(y) THEN 29 ELSE 28)
    ELSE IF m \in {4, 6, 9, 11} THEN 30 ELSE 31

\* Whether the first Len(name) characters of s are name, letter case ignored.
NameAt(s, name) ==
    Len(name) <= Len(s) /\ Lower(SubSeq(s, 1, Len(name))) = Lower(name)

\* The ways a directive's group can match at the start of s: each a record of
\* the number of characters taken and the value read.
\*   %Y  \d\d\d\d
\*   %m  1[0-2]|0[1-9]|[1-9]
\*   %d  3[0-1]|[1-2]\d|0[1-9]|[1-9]| [1-9]
\*   %B, %b  the month names, letter case ignored
Tokens(dir, s) ==
    LET two == IF Len(s) >= 2 /\ IsDigit(CharAt(s, 1)) /\ IsDigit(CharAt(s, 2))
               THEN {DigitsVal(SubSeq(s, 1, 2))} ELSE {}
        one == IF Len(s) >= 1 /\ IsDigit(CharAt(s, 1)) /\ CharAt(s, 1) # "0"
               THEN {DigitsVal(SubSeq(s, 1, 1))} ELSE {}
        sp1 == IF Len(s) >= 2 /\ CharAt(s, 1) = " " /\ IsDigit(CharAt(s, 2))
                  /\ CharAt(s, 2) # "0"
               THEN {DigitsVal(SubSeq(s, 2, 2))} ELSE {}
    IN CASE dir = "Y" ->
              IF Len(s) >= 4 /\ AllChars(SubSeq(s, 1, 4), IsDigit)
              THEN {[len |-> 4, val |-> DigitsVal(SubSeq(s, 1, 4))]} ELSE {}
         [] dir = "m" ->
              {[len |-> 2, val |-> v] : v \in {w \in two : w \in 1..12}}
              \cup {[len |-> 1, val |-> v] : v \in one}
         [] dir = "d" ->
              {[len |-> 2, val |-> v] : v \in {w \in two : w \in 1..31}}
              \cup {[len |-> 1, val |-> v] : v \in one}
              \cup {[len |-> 2, val |-> v] : v \in sp1}
         [] dir = "B" ->
              {[len |-> Len(MonthNames[i]), val |-> i] :
                  i \in {j \in 1..12 : NameAt(s, MonthNames[j])}}
         [] dir = "b" ->
              {[len |-> 3, val |-> i] :
                  i \in {j \in 1..12 : NameAt(s, MonthAbbrs[j])}}
         [] OTHER -> {}

\* The date field a directive sets.
Bind(b, dir, val) ==
    CASE dir = "Y" -> [b EXCEPT !.Y = val]
      [] dir \in {"m", "B", "b"} -> [b EXCEPT !.m = val]
      [] OTHER -> [b EXCEPT !.d = val]

LeadingSpaces(s) == Len(s) - Len(LStrip(s))

\* Every way format f matches the whole of s, as the date fields read.
RECURSIVE Parses(_, _, _)
Parses(f, s, b) ==
    IF f = "" THEN (IF s = "" THEN {b} ELSE {})
    ELSE IF Head(f) = "%" THEN
        UNION {Parses(Drop(f, 2), Drop(s, tok.len), Bind(b, CharAt(f, 2), tok.val)) :
                  tok \in Tokens(CharAt(f, 2), s)}
    ELSE IF IsSpace(Head(f)) THEN
        UNION {Parses(LStrip(f), Drop(s, n), b) : n \in 1..LeadingSpaces(s)}
    ELSE IF s # "" /\ Head(s) = Head(f) THEN Parses(Tail(f), Tail(s), b)
    ELSE {}

\* A date datetime accepts: years 1..9999, the day within the month.
ValidDate(b) == b.Y >= 1 /\ b.m \in 1..12 /\ b.d >= 1 /\ b.d <= DaysIn(b.Y, b.m)

\* datetime.strptime(s, f): the set holding the date read, empty when it raises
\* ValueError (no match, text left over, or no such date).  Fields the format
\* does not name default to 1900-01-01.
strptime(s, f) ==
    {b \in Parses(f, s, [Y |-> 1900, m |-> 1, d |-> 1]) : ValidDate(b)}

\* strftime's %Y is the C library's: glibc does not pad a year below 1000.
FmtYear(y) == IF pad_year THEN ZeroPad(NatStr(y), 4) ELSE NatStr(y)

\* parsed_date.strftime("%Y-%m-%d")
strftime_ymd(b) ==
    FmtYear(b.Y) \o "-" \o ZeroPad(NatStr(b.m), 2) \o "-" \o ZeroPad(NatStr(b.d), 2)

\* parsed_date.strftime("%Y-%m-01")
strftime_ym01(b) == FmtYear(b.Y) \o "-" \o ZeroPad(NatStr(b.m), 2) \o "-01"

SetMin(S) == CHOOSE x \in S : \A y \in S : x <= y

(***************************************************************************)
(* TCPDataStandardizer.standardize_date                                    *)
(***************************************************************************)
\* A slip: the month-first numeric format listed before the day-first one.
DATE_FORMATS_MonthFirst ==
    <<"%B %d, %Y", "%d %B %Y", "%b %d, %Y", "%d %b %Y", "%Y-%m-%d", "%m/%d/%Y",
      "%d/%m/%Y", "%d.%m.%Y", "%Y/%m/%d", "%B %Y", "%b %Y">>

DATE_FORMATS ==
    <<"%B %d, %Y", "%d %B %Y", "%b %d, %Y", "%d %b %Y", "%Y-%m-%d", "%d/%m/%Y",
      "%m/%d/%Y", "%d.%m.%Y", "%Y/%m/%d", "%B %Y", "%b %Y">>

\* A slip: the ISO shortcut also asks for a month 01..12 and a day 01..31.
IsoShapeOfACalendarDate(s) ==
    /\ Len(s) = 10
    /\ \A i \in {1, 2, 3, 4, 6, 7, 9, 10} : IsDigit(CharAt(s, i))
    /\ CharAt(s, 5) = "-"
    /\ CharAt(s, 8) = "-"
    /\ DigitsVal(SubSeq(s, 6, 7)) \in 1..12
    /\ DigitsVal(SubSeq(s, 9, 10)) \in 1..31

\* re.match(r'^\d{4}-\d{2}-\d{2}$', s) on a stripped string
IsoShape(s) ==
    /\ Len(s) = 10
    /\ \A i \in {1, 2, 3, 4, 6, 7, 9, 10} : IsDigit(CharAt(s, i))
    /\ CharAt(s, 5) = "-"
    /\ CharAt(s, 8) = "-"

\* Whether (January|...|December)\s+(\d{4}), letter case ignored, matches s
\* from its first character with month j.
MonthYearAt(s, j) ==
    /\ NameAt(s, MonthNames[j])
    /\ LET r == Drop(s, Len(MonthNames[j]))
       IN  /\ LeadingSpaces(r) >= 1
           /\ Len(LStrip(r)) >= 4
           /\ AllChars(SubSeq(LStrip(r), 1, 4), IsDigit)

\* re.search of that pattern: the set holding the leftmost match's two groups,
\* empty when there is no match.
month_year_match(s) ==
    LET starts == {i \in 1..Len(s) : \E j \in 1..12 : MonthYearAt(Drop(s, i - 1), j)}
    IN  IF starts = {} THEN {}
        ELSE LET t == Drop(s, SetMin(starts) - 1)
                 j == CHOOSE k \in 1..12 : MonthYearAt(t, k)
             IN  {[month_name |-> SubSeq(t, 1, Len(MonthNames[j])),
                   year |-> SubSeq(LStrip(Drop(t, Len(MonthNames[j]))), 1, 4)]}

\* A slip: re.match for re.search, so that the year is found only at the start.
YearAtStart(s, i) ==
    /\ i = 1
    /\ 4 <= Len(s)
    /\ SubSeq(s, 1, 2) \in {"19", "20"}
    /\ IsDigit(CharAt(s, 3))
    /\ IsDigit(CharAt(s, 4))
    /\ (4 = Len(s) \/ ~IsWord(CharAt(s, 5)))

\* Whether \b(19|20)\d{2}\b matches s at position i.
YearAt(s, i) ==
    /\ i + 3 <= Len(s)
    /\ SubSeq(s, i, i + 1) \in {"19", "20"}
    /\ IsDigit(CharAt(s, i + 2))
    /\ IsDigit(CharAt(s, i + 3))
    /\ (i = 1 \/ ~IsWord(CharAt(s, i - 1)))
    /\ (i + 3 = Len(s) \/ ~IsWord(CharAt(s, i + 4)))

\* re.search(r'\b(19|20)\d{2}\b', s): the set holding the leftmost match.
year_match(s) ==
    LET starts == {i \in 1..Len(s) : YearAt(s, i)}
    IN  IF starts = {} THEN {} ELSE {SubSeq(s, SetMin(starts), SetMin(starts) + 3)}

\* The loop over DATE_FORMATS: the set holding the first format's result.
FirstFormat(date_str) ==
    LET hits == {i \in 1..Len(DATE_FORMATS) : strptime(date_str, DATE_FORMATS[i]) # {}}
    IN  IF hits = {} THEN {}
        ELSE {strftime_ymd(CHOOSE b \in strptime(date_str, DATE_FORMATS[SetMin(hits)]) : TRUE)}

\* A slip: the bare year looked for before the month-year phrase.
DateFallbackYearFirst(date_str) ==
    LET mym == month_year_match(date_str)
        my == CHOOSE x \in mym : TRUE
        parsed == IF mym = {} THEN {}
                  ELSE strptime(my.month_name \o " " \o my.year, "%B %Y")
        ym == year_match(date_str)
    IN  IF ym # {} THEN Str((CHOOSE y \in ym : TRUE) \o "-01-01")
        ELSE IF parsed # {} THEN Str(strftime_ym01(CHOOSE b \in parsed : TRUE))
        ELSE None

\* The fallbacks after the loop.
DateFallback(date_str) ==
    LET mym == month_year_match(date_str)
        my == CHOOSE x \in mym : TRUE
        parsed == IF mym = {} THEN {}
                  ELSE strptime(my.month_name \o " " \o my.year, "%B %Y")
        ym == year_match(date_str)
    IN  IF parsed # {} THEN Str(strftime_ym01(CHOOSE b \in parsed : TRUE))
        ELSE IF ym # {} THEN Str((CHOOSE y \in ym : TRUE) \o "-01-01")
        ELSE None

standardize_date(date_value) ==
    IF Falsy(date_value) \/ EqNull(date_value) \/ isna(date_value) THEN None
    ELSE LET date_str == Strip(PyStr(date_value))
             first == FirstFormat(date_str)
         IN  IF IsoShape(date_str) THEN Str(date_str)
             ELSE IF first # {} THEN Str(CHOOSE r \in first : TRUE)
             ELSE DateFallback(date_str)

(***************************************************************************)
(* TCPDataStandardizer.standardize_vessel_name                             *)
(***************************************************************************)
\* The alternatives of r'^(M/V|MT|MV|M\.V\.|S\.S\.|SS)'.
VESSEL_PREFIXES == <<"M/V", "MT", "MV", "M.V.", "S.S.", "SS">>

COMPANY_KEYWORDS == <<"LTD", "INC", "CORP", "COMPANY", "HOLDINGS", "AS", "SA", "LLC">>

\* A slip: the canonical prefix M/V missing from the alternatives.
HasVesselPrefixButCanonical(name) ==
    \E i \in 2..Len(VESSEL_PREFIXES) : StartsWith(name, VESSEL_PREFIXES[i])

\* re.match(r'^(M/V|MT|MV|M\.V\.|S\.S\.|SS)', name)
HasVesselPrefix(name) ==
    \E i \in 1..Len(VESSEL_PREFIXES) : StartsWith(name, VESSEL_PREFIXES[i])

\* any(keyword in name for keyword in [...])
HasCompanyKeyword(name) ==
    \E i \in 1..Len(COMPANY_KEYWORDS) : Contains(name, COMPANY_KEYWORDS[i])

\* re.sub of a pattern '^' + prefix + '\s*' (or '\s+' when need_ws) by repl.
SubPrefix(name, prefix, need_ws, repl) ==
    IF StartsWith(name, prefix)
       /\ (need_ws => LeadingSpaces(Drop(name, Len(prefix))) >= 1)
    THEN repl \o LStrip(Drop(name, Len(prefix)))
    ELSE name

\* The four re.sub calls that standardize the prefix formats.
StandardizePrefix(name) ==
    SubPrefix(SubPrefix(SubPrefix(SubPrefix(name,
        "M.V.", FALSE, "M/V "),
        "MV", TRUE, "M/V "),
        "M.T.", FALSE, "MT "),
        "MT", TRUE, "MT ")

\* A slip: "M/V " put before every name.
EnsurePrefixAlways(name) == "M/V " \o name

\* The "ensure common prefixes are present" step.
EnsurePrefix(name) ==
    IF ~HasVesselPrefix(name) /\ ~HasCompanyKeyword(name)
    THEN "M/V " \o name
    ELSE name

standardize_vessel_name(vessel_name) ==
    IF Falsy(vessel_name) \/ EqNull(vessel_name) \/ isna(vessel_name) THEN None
    ELSE LET name == CollapseWs(Upper(Strip(PyStr(vessel_name))))
         IN  Str(Strip(CollapseWs(StandardizePrefix(EnsurePrefix(name)))))

(***************************************************************************)
(* TCPDataStandardizer.extract_numeric_value and standardize_currency      *)
(***************************************************************************)
\* A slip: the comma left out of the class.
IsFormattingNoComma(c) == c = "$" \/ IsSpace(c)

\* The characters of the class [,$€£¥\s] (the ASCII ones).
IsFormatting(c) == c \in {",", "$"} \/ IsSpace(c)

\* re.sub(r'[,$€£¥\s]', '', s)
RECURSIVE RemoveFormatting(_)
RemoveFormatting(s) ==
    IF s = "" THEN ""
    ELSE IF IsFormatting(Head(s)) THEN RemoveFormatting(Tail(s))
    ELSE Head(s) \o RemoveFormatting(Tail(s))

\* The longest run of digits s starts with.
RECURSIVE DigitRun(_)
DigitRun(s) ==
    IF s # "" /\ IsDigit(Head(s)) THEN Head(s) \o DigitRun(Tail(s)) ELSE ""

\* Whether -?\d+\.?\d* matches s from position i.
NumberAt(s, i) ==
    \/ IsDigit(CharAt(s, i))
    \/ CharAt(s, i) = "-" /\ i < Len(s) /\ IsDigit(CharAt(s, i + 1))

\* re.search(r'-?\d+\.?\d*', s): the set holding the leftmost match's text.
number_match(s) ==
    LET starts == {i \in 1..Len(s) : NumberAt(s, i)}
    IN  IF starts = {} THEN {}
        ELSE LET t == Drop(s, SetMin(starts) - 1)
                 sign == IF Head(t) = "-" THEN "-" ELSE ""
                 ip == DigitRun(Drop(t, Len(sign)))
                 r == Drop(t, Len(sign) + Len(ip))
                 dot == IF r # "" /\ Head(r) = "." THEN "." ELSE ""
                 fp == IF dot = "." THEN DigitRun(Tail(r)) ELSE ""
             IN  {sign \o ip \o dot \o fp}

\* float(text) of a text -?\d+\.?\d* (far shorter than the 309 digits at which
\* float() gives inf).
FloatOfText(text) ==
    LET neg == Head(text) = "-"
        body == IF neg THEN Tail(text) ELSE text
        ip == DigitRun(body)
        fp == IF Len(body) > Len(ip) THEN Drop(body, Len(ip) + 1) ELSE ""
        m == DigitsVal(ip \o fp)
    IN  Float(IF neg THEN -m ELSE m, Len(fp))

\* float(value) of a number
FloatOfNumber(v) ==
    CASE v.t = "int" -> Float(v.n, 0)
      [] v.t = "bool" -> Float(IF v.b THEN 1 ELSE 0, 0)
      [] OTHER -> v

extract_numeric_value(value) ==
    IF Falsy(value) \/ EqNull(value) \/ isna(value) THEN None
    ELSE IF IsNumber(value) THEN FloatOfNumber(value)
    ELSE LET value_str == RemoveFormatting(Strip(PyStr(value)))
             found == number_match(value_str)
         IN  IF found # {} THEN FloatOfText(CHOOSE x \in found : TRUE) ELSE None

\* round(x, places) of a float: the set of results.  A decimal with no more
\* than `places` fraction digits is returned as it is.  Otherwise the nearest
\* decimal with `places` digits; when the decimal written lies exactly half way
\* the double nearest to it lies on either side, so both neighbours are results.
RoundResults(x, places) ==
    IF x.k # "fin" \/ x.e <= places THEN {x}
    ELSE LET unit == Pow10(x.e - places)
             a == Abs(x.m)
             lo == a \div unit
             rem == a % unit
             sgn == IF x.m < 0 THEN -1 ELSE 1
             qs == IF 2 * rem < unit THEN {lo}
                   ELSE IF 2 * rem > unit THEN {lo + 1}
                   ELSE {lo, lo + 1}
         IN  {Float(sgn * q, places) : q \in qs}

\* standardize_currency: the set of results (one, but for a half-way decimal).
standardize_currency(value, decimal_places) ==
    LET numeric == extract_numeric_value(value)
    IN  IF numeric # None THEN RoundResults(numeric, decimal_places) ELSE {None}

(***************************************************************************)
(* TCPDataStandardizer.standardize_text, standardize_email and             *)
(* standardize_boolean                                                     *)
(***************************************************************************)
standardize_text(value) ==
    IF Falsy(value) \/ EqNull(value) \/ isna(value) THEN None
    ELSE LET text == CollapseWs(Strip(PyStr(value)))
         IN  IF Lower(text) = "null" THEN None
             ELSE IF text # "" THEN Str(text) ELSE None

IsLocalChar(c) == IsAlpha(c) \/ IsDigit(c) \/ c \in {".", "_", "%", "+", "-"}

IsDomainChar(c) == IsAlpha(c) \/ IsDigit(c) \/ c \in {".", "-"}

\* A slip: the top-level domain not asked for.
EmailShapeWithoutTld(email) ==
    \E at \in 2..(Len(email) - 1) :
        /\ CharAt(email, at) = "@"
        /\ AllChars(SubSeq(email, 1, at - 1), IsLocalChar)
        /\ AllChars(SubSeq(email, at + 1, Len(email)), IsDomainChar)

\* re.match(r'^[a-zA-Z0-9._%+-]+@[a-zA-Z0-9.-]+\.[a-zA-Z]{2,}$', email) on a
\* stripped string
EmailShape(email) ==
    \E at \in 2..Len(email) :
        /\ CharAt(email, at) = "@"
        /\ AllChars(SubSeq(email, 1, at - 1), IsLocalChar)
        /\ \E dot \in (at + 2)..(Len(email) - 2) :
              /\ CharAt(email, dot) = "."
              /\ AllChars(SubSeq(email, at + 1, dot - 1), IsDomainChar)
              /\ AllChars(SubSeq(email, dot + 1, Len(email)), IsAlpha)

standardize_email(value) ==
    IF Falsy(value) \/ EqNull(value) \/ EqDash(value) \/ isna(value) THEN None
    ELSE LET email == Lower(Strip(PyStr(value)))
         IN  IF EmailShape(email) THEN Str(email) ELSE None

standardize_boolean(value) ==
    IF Falsy(value) \/ EqNull(value) \/ EqDash(value) \/ isna(value) THEN None
    ELSE LET val_str == Upper(Strip(PyStr(value)))
         IN  IF val_str \in {"YES", "Y", "TRUE", "1"} THEN Str("Yes")
             ELSE IF val_str \in {"NO", "N", "FALSE", "0", "N/A", "N/A."} THEN Str("No")
             ELSE None

(***************************************************************************)
(* TCPDataStandardizer.standardize_contract_data                           *)
(* A dict is a function from its keys; the call returns Dict(d) or raises. *)
(***************************************************************************)
Dict(d) == [t |-> "dict", d |-> d]

date_fields ==
    {"TCP DATE", "DELIVERY DATE", "REDELIVERY DATE",
     "OPTION DECLARATION DATE.", "EARLIEST REDELIVERY DATE.",
     "LATEST REDELIVERY DATE.", "EARLIEST REDELIVERY NOTICE DATE.",
     "LATEST REDELIVERY NOTICE DATE", "OFFHIRE DECLARATION DATE(CL 4(B))",
     "Original Annual Anniversary Date", "Revised Annual Anniversary Date"}

vessel_name_fields == {"VESSEL NAME"}

numeric_int_fields ==
    {"NUMBER OF DAYS PRIOR REDELIVERY DATE TO DECLARE THE OPTION",
     "REDEL CHOP minus DAYS", "REDEL CHOP plus DAYS",
     "FIRST REDEL NOTICE", "NUMBER OF DAYS PRIOR REDELIVERY DATE TO DECLARE THIS",
     "IMO NUMBER", "BUILT", "DWT"}

rate_fields == {"CURRENT TC RATE(CL 8)"}

email_fields ==
    {"BROKERS EMAIL", "VESSEL EMAIL", "OWNER EMAIL ADDRESS",
     "TECHNICAL MANAGER EMAIL ADDRESS"}

boolean_fields == {"CAN OFFHIRE BE ADDED?(CL 4(B))"}

uppercase_text_fields ==
    {"TRADE", "TYPE AUTO.", "CONTRACT TYPE", "OWNERS.", "CHARTERERS",
     "CHARTER LENGTH", "OPTION PERIODS", "STTC/ LTTC", "REDELIVERY LOCATION",
     "ALL REDEL NOTICES", "LAST CARGOES ON REDELIVERY", "SLOPS ON REDELIVERY",
     "CLEANING REQUIREMENTS ON REDELIVERY", "OTHER REDELIVERY TERMS (E#G BALLAST BONUS)",
     "BUNKERS ON REDELIVERY(CL 15)", "FIXED/ MARKET RELATED",
     "BENEFICIAL OWNER (FROM BANK DETAILS)", "DRY-DOCK LOCATION",
     "BROKER", "FLAG", "TECHNICAL MANAGER", "P&I CLUB",
     "H&M VALUE USDM", "CLASSIFICATION SOCIETY", "IMO TYPE", "ICE CLASS",
     "LENGTH OF NEXT OPTION"}

\* The fields standardize_contract_data knows: the schema.
SchemaFields ==
    date_fields \cup vessel_name_fields \cup numeric_int_fields \cup rate_fields
        \cup email_fields \cup boolean_fields \cup uppercase_text_fields

\* int(numeric): towards zero; OverflowError for an infinity.
IntOfFloat(x) ==
    IF x.k # "fin" THEN Raised("OverflowError")
    ELSE PyInt((IF x.m < 0 THEN -1 ELSE 1) * (Abs(x.m) \div Pow10(x.e)))

\* The 'VESSEL NAME' branch.
VesselNameField(val) ==
    IF ~Falsy(val) /\ ~EqNull(val) /\ ~EqDash(val)
    THEN Str(Upper(Strip(PyStr(val))))
    ELSE None

\* The branch of the integer fields.
NumericIntField(val) ==
    LET numeric == extract_numeric_value(val)
    IN  IF numeric # None THEN IntOfFloat(numeric) ELSE None

\* The 'CURRENT TC RATE(CL 8)' branch.
RateField(rate_val) ==
    IF ~Falsy(rate_val) /\ ~EqNull(rate_val) /\ ~EqDash(rate_val)
    THEN Str(Strip(PyStr(rate_val)))
    ELSE None

\* A slip: the sentinel "-" stored as absence, as the email branch does.
UppercaseTextFieldDashAbsent(val) ==
    IF ~Falsy(val) /\ ~EqNull(val) /\ ~EqDash(val) /\ ~isna(val)
    THEN Str(Upper(Strip(PyStr(val))))
    ELSE None

\* The branch of the uppercase text fields.
UppercaseTextField(val) ==
    IF ~Falsy(val) /\ ~EqNull(val) /\ ~EqDash(val) /\ ~isna(val)
    THEN Str(Upper(Strip(PyStr(val))))
    ELSE IF EqDash(val) THEN val ELSE None

\* What the branch of a schema field stores for a raw value.
FieldValue(field, val) ==
    CASE field \in date_fields -> standardize_date(val)
      [] field \in vessel_name_fields -> VesselNameField(val)
      [] field \in numeric_int_fields -> NumericIntField(val)
      [] field \in rate_fields -> RateField(val)
      [] field \in email_fields -> standardize_email(val)
      [] field \in boolean_fields -> standardize_boolean(val)
      [] OTHER -> UppercaseTextField(val)

\* A slip: every key of the raw record is standardized, an unknown one as text.
StandardizedKeysAllRaw(raw) == DOMAIN raw

\* The keys the branches write: each is guarded by `if field in raw_data`.
StandardizedKeys(raw) == {field \in SchemaFields : field \in DOMAIN raw}

standardize_contract_data(raw) ==
    LET out == [field \in StandardizedKeys(raw) |-> FieldValue(field, raw[field])]
    IN  IF \E field \in DOMAIN out : out[field].t = "raise"
        THEN Raised("OverflowError")
        ELSE Dict(out)

(***************************************************************************)
(* standardize_contract_data statement by statement, as concurrent callers *)
(* run it: dicts are objects of a heap, a frame binds the names raw_data   *)
(* and standardized to objects, and the branches run one after another.    *)
(***************************************************************************)
\* The branches in the order of the code: lines 265, 270, 284, 290, 303, 308
\* and 325.
BranchFields ==
    <<date_fields, vessel_name_fields, numeric_int_fields, rate_fields,
      email_fields, boolean_fields, uppercase_text_fields>>

\* The statement after the last branch: the return of line 333.
AtReturn == Len(BranchFields) + 1

\* The call has ended.
Ended == AtReturn + 1

\* A reference to a dict object.
Ref(i) == [t |-> "ref", ref |-> i]

\* The frame of a call that was handed object raw_ref, which held given.
Frame(raw_ref, given) ==
    [raw_data |-> raw_ref, standardized |-> 0, pc |-> 0, ret |-> NoCall,
     given |-> given, overlapped |-> FALSE]

\* A slip: one dict, made once, that every call fills.
SharedObject(h, callers) == callers + 1

\* Line 255, standardized = {}: a new object.
NewObject(h, callers) == Len(h) + 1

\* A slip: the branches store into the raw record.
WrittenObjectIsRaw(frame) == frame.raw_data

\* The object the branches store into: standardized[field] = ...
WrittenObject(frame) == frame.standardized

\* d after d[k] = vals[k] for every key of vals.
Store(d, vals) ==
    [k \in DOMAIN d \cup DOMAIN vals |-> IF k \in DOMAIN vals THEN vals[k] ELSE d[k]]

\* What a call returned: the dict its reference leads to, or the exception.
ResultOf(h, frame) ==
    IF frame.ret.t = "ref" THEN Dict(h[frame.ret.ref]) ELSE frame.ret

(***************************************************************************)
(* TCPDataStandardizer.create_columnar_dataframe                           *)
(* A Python dict keeps the order in which its keys were inserted: a record *)
(* of the list is its keys in that order and its values.  A DataFrame is   *)
(* its column names in order and its rows, each a value for every column.  *)
(***************************************************************************)
ODict(keys, val) == [keys |-> keys, val |-> val]

Range(seq) == {seq[i] : i \in DOMAIN seq}

\* The column order of the Excel template.
column_order ==
    <<"VESSEL NAME", "TRADE", "TYPE AUTO.", "TCP DATE", "CONTRACT TYPE",
      "OWNERS.", "CHARTERERS", "CHARTER LENGTH", "OPTION PERIODS",
      "LENGTH OF NEXT OPTION", "NUMBER OF DAYS PRIOR REDELIVERY DATE TO DECLARE THE OPTION",
      "OPTION DECLARATION DATE.", "STTC/ LTTC", "DELIVERY DATE", "REDELIVERY DATE",
      "REDEL CHOP minus DAYS", "REDEL CHOP plus DAYS", "REDELIVERY LOCATION",
      "FIRST REDEL NOTICE", "EARLIEST REDELIVERY DATE.", "LATEST REDELIVERY DATE.",
      "EARLIEST REDELIVERY NOTICE DATE.", "LATEST REDELIVERY NOTICE DATE",
      "ALL REDEL NOTICES", "LAST CARGOES ON REDELIVERY", "SLOPS ON REDELIVERY",
      "CLEANING REQUIREMENTS ON REDELIVERY", "CAN OFFHIRE BE ADDED?(CL 4(B))",
      "NUMBER OF DAYS PRIOR REDELIVERY DATE TO DECLARE THIS",
      "OFFHIRE DECLARATION DATE(CL 4(B))", "OTHER REDELIVERY TERMS (E#G BALLAST BONUS)",
      "BUNKERS ON REDELIVERY(CL 15)", "CURRENT TC RATE(CL 8)", "FIXED/ MARKET RELATED",
      "BENEFICIAL OWNER (FROM BANK DETAILS)", "DRY-DOCK LOCATION", "BROKER",
      "BROKERS EMAIL", "Original Annual Anniversary Date", "Revised Annual Anniversary Date",
      "IMO NUMBER", "BUILT", "FLAG", "VESSEL EMAIL", "OWNER EMAIL ADDRESS",
      "TECHNICAL MANAGER", "TECHNICAL MANAGER EMAIL ADDRESS", "P&I CLUB",
      "H&M VALUE USDM", "CLASSIFICATION SOCIETY", "IMO TYPE", "ICE CLASS", "DWT">>

\* cols with the keys it does not hold yet put after it, in their order.
RECURSIVE AppendNew(_, _)
AppendNew(cols, keys) ==
    IF keys = <<>> THEN cols
    ELSE AppendNew(IF Head(keys) \in Range(cols) THEN cols ELSE Append(cols, Head(keys)),
                   Tail(keys))

\* The columns of pd.DataFrame(records): every key, in the order first seen.
RECURSIVE FrameColumns(_)
FrameColumns(records) ==
    IF records = <<>> THEN <<>>
    ELSE AppendNew(FrameColumns(SubSeq(records, 1, Len(records) - 1)),
                   records[Len(records)].keys)

\* What record r gives for column c: its value, NaN when it lacks the key.
Given(r, c) == IF c \in Range(r.keys) THEN r.val[c] ELSE NaN

\* Whether pandas stores column c as floats: every value given is an int, a
\* float or None, one at least is a number, and one at least is not an int.
FloatColumn(records, c) ==
    LET given == {Given(records[i], c) : i \in DOMAIN records}
    IN  /\ \A v \in given : v.t \in {"int", "float", "None"}
        /\ \E v \in given : v.t \in {"int", "float"}
        /\ \E v \in given : v.t # "int"

\* The cell of record r under column c.
Cell(records, r, c) ==
    LET v == Given(r, c)
    IN  IF FloatColumn(records, c)
        THEN (IF v.t = "None" THEN NaN ELSE FloatOfNumber(v))
        ELSE v

\* pd.DataFrame(contracts)
DataFrame(records) ==
    LET cols == FrameColumns(records)
    IN  [t |-> "df", columns |-> cols,
         rows |-> [i \in DOMAIN records |->
                      [c \in Range(cols) |-> Cell(records, records[i], c)]]]

\* A slip: the rows that lack a value under some column dropped (a dropna).
SelectColumnsOfCompleteRows(frame, cols) ==
    LET Complete(row) == \A c \in DOMAIN row : row[c] # NaN
    IN  [t |-> "df", columns |-> cols,
         rows |-> SelectSeq([i \in DOMAIN frame.rows |->
                                [c \in Range(cols) |-> frame.rows[i][c]]], Complete)]

\* df[final_cols]
SelectColumns(frame, cols) ==
    [t |-> "df", columns |-> cols,
     rows |-> [i \in DOMAIN frame.rows |-> [c \in Range(cols) |-> frame.rows[i][c]]]]

\* A slip: the columns left in the order the frame has them.
FinalColumnsAsSeen(frame) == frame.columns

\* existing_cols + other_cols
FinalColumns(frame) ==
    LET Existing(col) == col \in Range(frame.columns)
        Other(col) == col \notin Range(column_order)
    IN  SelectSeq(column_order, Existing) \o SelectSeq(frame.columns, Other)

create_columnar_dataframe(records) ==
    IF records = <<>> THEN [t |-> "df", columns |-> <<>>, rows |-> <<>>]
    ELSE LET frame == DataFrame(records)
         IN  SelectColumns(frame, FinalColumns(frame))

(***************************************************************************)
(* TCPDatabase (tcp_cli.py) and filter_contracts_by_vessel                 *)
(* (streamlit_app.py).  A contract is a dict: a function from its keys.    *)
(***************************************************************************)
\* contract.get(key): None when the key is missing.
Get(contract, key) == IF key \in DOMAIN contract THEN contract[key] ELSE None

\* The contract with contract[key] = value set.
SetItem(contract, key, value) ==
    [k \in (DOMAIN contract) \cup {key} |-> IF k = key THEN value ELSE contract[k]]

\* datetime.now().isoformat(): the t-th reading of the clock, as a string.
IsoNow(t) == Str("T" \o NatStr(t))

\* A slip: the contract put at the front of the list.
add_contract_in_front(list, contract_data, filename, t) ==
    <<SetItem(SetItem(contract_data, "_source_file", Str(filename)),
              "_processed_at", IsoNow(t))>> \o list

\* TCPDatabase.add_contract: the dict handed in gets both keys and is appended.
add_contract(list, contract_data, filename, t) ==
    Append(list, SetItem(SetItem(contract_data, "_source_file", Str(filename)),
                         "_processed_at", IsoNow(t)))

\* What a call of add_contract was handed.
Handed(contract_data, filename) == [contract_data |-> contract_data, filename |-> filename]

\* ord(c) of the characters of a date string.
Ord(c) == IF c = "-" THEN 45 ELSE 48 + DigitVal(c)

\* a < b on strings
RECURSIVE StrLess(_, _)
StrLess(a, b) ==
    IF b = "" THEN FALSE
    ELSE IF a = "" THEN TRUE
    ELSE IF Head(a) = Head(b) THEN StrLess(Tail(a), Tail(b))
    ELSE Ord(Head(a)) < Ord(Head(b))

\* x.get(date_key) or '0000-00-00'
SortKey(contract, date_key) ==
    LET v == Get(contract, date_key)
    IN  IF Falsy(v) THEN "0000-00-00" ELSE v.s

\* list.sort(key=..., reverse=True): descending, equal keys in their order.
RECURSIVE SortedDescending(_, _)
SortedDescending(list, date_key) ==
    IF list = <<>> THEN <<>>
    ELSE LET front == SortedDescending(SubSeq(list, 1, Len(list) - 1), date_key)
             last == list[Len(list)]
             NotBelow(c) == ~StrLess(SortKey(c, date_key), SortKey(last, date_key))
             Below(c) == StrLess(SortKey(c, date_key), SortKey(last, date_key))
         IN  SelectSeq(front, NotBelow) \o <<last>> \o SelectSeq(front, Below)

\* contract.get(name_key) and vessel_name_upper in contract[name_key].upper()
MatchesVessel(contract, name_key, vessel_name_upper) ==
    LET v == Get(contract, name_key)
    IN  ~Falsy(v) /\ Contains(Upper(v.s), vessel_name_upper)

\* The filter and the sort both functions share, on the keys each reads.
FilterAndSort(list, query, name_key, date_key) ==
    LET Matching(contract) == MatchesVessel(contract, name_key, Upper(query))
    IN  SortedDescending(SelectSeq(list, Matching), date_key)

\* TCPDatabase.query_by_vessel_name
query_by_vessel_name(list, query) ==
    FilterAndSort(list, query, "vessel_name", "contract_date")

\* filter_contracts_by_vessel
filter_contracts_by_vessel(list, query) ==
    IF query = "" THEN list
    ELSE FilterAndSort(list, query, "VESSEL NAME", "TCP DATE")

\* standardize_and_validate: standardize_contract_data and a printed count.
standardize_and_validate(raw) == standardize_contract_data(raw)

\* filename with '.pdf' added when it does not end with it.
WithPdf(filename) ==
    IF Len(filename) >= 4 /\ SubSeq(filename, Len(filename) - 3, Len(filename)) = ".pdf"
    THEN filename
    ELSE filename \o ".pdf"

\* How the steps of processing a file went: step says whether the file was
\* missing, the text extraction or the API extraction raised, or the API
\* extracted a record; contract_data is what standardization makes of it.
OutcomeOf(step, contract_data) ==
    IF step # "extracted" THEN step
    ELSE IF contract_data.t # "dict" THEN "standardize_error"
    ELSE "ok"

\* A slip: the extracted record stored before it is standardized.
storing_first(list, filename, step, raw, contract_data, t) ==
    [db |-> IF step = "extracted" THEN add_contract(list, raw, WithPdf(filename), t) ELSE list,
     ret |-> IF OutcomeOf(step, contract_data) = "ok"
             THEN Dict(SetItem(SetItem(raw, "_source_file", Str(WithPdf(filename))),
                               "_processed_at", IsoNow(t)))
             ELSE None,
     outcome |-> OutcomeOf(step, contract_data),
     handed |-> IF step = "extracted" THEN <<Handed(raw, WithPdf(filename))>> ELSE <<>>]

\* Lines 92-124 of process_single_tcp once standardize_and_validate has made
\* contract_data of the extracted record (the steps that raise come before
\* it): the list afterwards, what the call returns, how its steps went and
\* what it handed to add_contract. Every exception of the steps is caught.
store_or_give_up(list, filename, step, raw, contract_data, t) ==
    IF OutcomeOf(step, contract_data) = "ok"
    THEN [db |-> add_contract(list, contract_data.d, WithPdf(filename), t),
          ret |-> Dict(SetItem(SetItem(contract_data.d, "_source_file", Str(WithPdf(filename))),
                               "_processed_at", IsoNow(t))),
          outcome |-> "ok",
          handed |-> <<Handed(contract_data.d, WithPdf(filename))>>]
    ELSE [db |-> list, ret |-> None, outcome |-> OutcomeOf(step, contract_data),
          handed |-> <<>>]

\* process_single_tcp on the list of the database.
process_single_tcp(list, filename, step, raw, t) ==
    CHOOSE single \in {store_or_give_up(list, filename, step, raw, contract_data, t) :
                          contract_data \in {standardize_and_validate(raw)}} : TRUE

\* if contract_data: (line 151) on what process_single_tcp returned.
Truthy(r) == r # None /\ DOMAIN r.d # {}

\* A slip: the newest contract put first in successful.
AfterFileNewestFirst(sofar, name, single) ==
    [db |-> single.db,
     successful |-> IF Truthy(single.ret) THEN <<single.ret.d>> \o sofar.successful
                                          ELSE sofar.successful,
     failed |-> IF Truthy(single.ret) THEN sofar.failed ELSE Append(sofar.failed, name),
     added |-> sofar.added \o single.handed,
     outcome |-> Append(sofar.outcome, single.outcome),
     clock |-> IF single.handed # <<>> THEN sofar.clock + 1 ELSE sofar.clock]

\* Lines 151-154 for one file: what the loop has after it, from what it had
\* before (sofar) and what process_single_tcp did (single).
AfterFile(sofar, name, single) ==
    [db |-> single.db,
     successful |-> IF Truthy(single.ret) THEN Append(sofar.successful, single.ret.d)
                                          ELSE sofar.successful,
     failed |-> IF Truthy(single.ret) THEN sofar.failed ELSE Append(sofar.failed, name),
     added |-> sofar.added \o single.handed,
     outcome |-> Append(sofar.outcome, single.outcome),
     clock |-> IF single.handed # <<>> THEN sofar.clock + 1 ELSE sofar.clock]

\* The loop of lines 146-154 over the files found, each with how its steps
\* go: the first files, then the last.
RECURSIVE ProcessedFiles(_, _, _)
ProcessedFiles(list, files, t) ==
    IF files = <<>>
    THEN [db |-> list, successful |-> <<>>, failed |-> <<>>, added |-> <<>>,
          outcome |-> <<>>, clock |-> t]
    ELSE CHOOSE after \in
             {AfterFile(sofar, files[Len(files)].name, single) :
                  <<sofar, single>> \in
                      {<<before, process_single_tcp(before.db, files[Len(files)].name,
                                                   files[Len(files)].step,
                                                   files[Len(files)].raw, before.clock + 1)>> :
                           before \in {ProcessedFiles(list, SubSeq(files, 1, Len(files) - 1), t)}}} :
             TRUE

\* process_all_tcps on the list of the database and the files line 134 found.
process_all_tcps(list, files, t) == ProcessedFiles(list, files, t)

(***************************************************************************)
(* The inputs the specifications draw from.                                *)
(***************************************************************************)
\* The longest run of whitespace put around an input.
MaxPad == 1

\* The most fields a raw record holds.
MaxFields == 2

\* The most tokens a vessel name is put together from.
MaxNameParts == 3

\* The longest string of the numeric alphabet.
MaxNumLen == 4

\* The longest string of the address alphabet.
MaxEmailLen == 6

\* The most records a list handed to the table builder holds.
MaxRecords == 2

\* The most contracts the database is given.
MaxContracts == 2

\* The most calls of add_contract a user of the database makes.
MaxAdds == 3

\* The most files a glob finds.
MaxFiles == 2

\* The calls of standardize_contract_data that run at the same time.
MaxCalls == 2

\* The largest max_retries a caller passes (the default of the code is 3).
MaxRetries == 3

RECURSIVE Spaces(_)
Spaces(n) == IF n = 0 THEN "" ELSE " " \o Spaces(n - 1)

\* s with up to MaxPad spaces before and after it.
Padded(S) == {Spaces(i) \o s \o Spaces(j) : s \in S, i \in 0..MaxPad, j \in 0..MaxPad}

Strs(S) == {Str(s) : s \in S}

\* The strings the spec calls absent, besides null itself.
AbsentStrings == Padded({"", "null", "NULL", "Null"}) \cup {"\t", " \n"}

\* Native numbers, among them the ones Python takes for false and the IEEE
\* specials json.loads produces for Infinity, -Infinity and NaN.
Numbers ==
    {PyInt(0), PyInt(1), PyInt(24), PyInt(-5), PyInt(2024), PyInt(20240115),
     Float(0, 0), Float(1, 0), Float(15, 1), Float(-25, 1), Float(2024, 0),
     Float(1185050, 2), Float(12345, 3), Inf, NegInf, NaN}

\* The native booleans.
Booleans == {PyBool(TRUE), PyBool(FALSE)}

\* ---- dates
NumToks == {"1", "01", "02", "12", "13", "29", "30", "31", "32", "00"}

YearToks == {"2024", "2023", "1999", "0999", "0000"}

MonthToks == {"January", "february", "FEB", "Feb", "May", "Sept", "December", "dec", "Marc"}

DayToks == {"1", "05", "29", "30", "31", "0", "32"}

NumericDates ==
    {a \o sep \o b \o sep \o y : a \in NumToks, b \in NumToks, y \in YearToks,
                                sep \in {"/", ".", "-"}}
    \cup {y \o sep \o a \o sep \o b : a \in NumToks, b \in NumToks, y \in YearToks,
                                     sep \in {"-", "/"}}

NamedDates ==
    {m \o " " \o d \o ", " \o y : m \in MonthToks, d \in DayToks, y \in YearToks}
    \cup {d \o " " \o m \o " " \o y : m \in MonthToks, d \in DayToks, y \in YearToks}
    \cup {m \o sp \o y : m \in MonthToks, y \in YearToks, sp \in {" ", "  ", "\t", ""}}
    \cup {m \o " " \o d \o "," \o y : m \in MonthToks, d \in {"1", "31"}, y \in YearToks}

\* Dates inside other text, as a contract's prose gives them.
EmbeddedDates ==
    {pre \o x \o post :
        pre \in {"", "On or about ", "x"},
        post \in {"", " approx", "5", "_"},
        x \in YearToks
              \cup {"February 1, 2024", "1/2/2024", "2024-01-15", "2024-13-45"}
              \cup {m \o " " \o y : m \in {"January", "march", "Sept"},
                                   y \in {"2024", "0000", "0999"}}}
    \cup {"January 0000 or March 2024", "in 2023 or 2024", "(1999)", "1899", "2100",
          "TBA", "-", "January", "12"}

DateInputs ==
    Strs(NumericDates \cup NamedDates \cup EmbeddedDates \cup AbsentStrings
         \cup Padded({"2024-01-15", "15/01/2024", "January 15, 2024", "2026"}))
    \cup Numbers \cup {None}

\* ---- vessel names
NameToks ==
    {"M/V", "MV", "MT", "M.V.", "M.T.", "S.S.", "SS", " ", "\t", "x", "A", "S"}

RECURSIVE TokStrings(_, _)
TokStrings(T, n) ==
    IF n = 0 THEN {""}
    ELSE LET shorter == TokStrings(T, n - 1)
         IN  shorter \cup {s \o tok : s \in shorter, tok \in T}

VesselInputs ==
    Strs(TokStrings(NameToks, MaxNameParts) \cup AbsentStrings
         \cup Padded({"northern star", "northern  star", "MV NORTHERN STAR",
                      "M.V. PACIFIC DAWN", "MT PACIFIC DAWN", "AEGEAN EXPRESS",
                      "Nordic Maritime Holdings AS", "ss great britain",
                      "s.s. great britain", "m.t. pacific dawn", "mtwara pearl",
                      "Salty Inc", "-"}))
    \cup Numbers \cup {None}

\* ---- numbers
NumChars == {"1", "0", "-", ".", ",", "$", " ", "x"}

RECURSIVE CharStrings(_, _)
CharStrings(C, n) ==
    IF n = 0 THEN {""}
    ELSE LET shorter == CharStrings(C, n - 1)
         IN  shorter \cup {s \o c : s \in shorter, c \in C}

NumericInputs ==
    Strs(CharStrings(NumChars, MaxNumLen) \cup AbsentStrings
         \cup Padded({"82,500 metric tons", "36-month charter", "IMO 9876543",
                      "$11,850.50", "USD 18,500 per day", "24 months", "12.345",
                      "2.675", "-0.125", "no number"}))
    \cup Numbers \cup {None}

\* ---- addresses
EmailChars == {"a", "B", "@", ".", " "}

EmailInputs ==
    Strs(CharStrings(EmailChars, MaxEmailLen) \cup AbsentStrings
         \cup Padded({"A@B.co", "a@b.c", "a@b", "Broker.Desk+tcp@Ship-Co.example.COM",
                      "ops@fleet.co.", "a b@c.co", "a@b@c.co", "a@b.c0m", "-"}))
    \cup Numbers \cup Booleans \cup {None}

\* ---- raw records
RecordFields ==
    {"TCP DATE", "VESSEL NAME", "DWT", "CURRENT TC RATE(CL 8)", "BROKERS EMAIL",
     "CAN OFFHIRE BE ADDED?(CL 4(B))", "TRADE", "contract_number"}

RecordValues ==
    {None, Str(""), Str("  "), Str("null"), Str("Null"), Str("-"), Str("0"),
     PyInt(0), Inf, Str("January 15, 2024"), Str(" a@b.co ")}

RawRecords ==
    UNION {[F -> RecordValues] : F \in {G \in SUBSET RecordFields : Cardinality(G) <= MaxFields}}

\* The raw record of test_full_standardization, keyed by snake_case names (the
\* fields its checks read).
SnakeCaseRecord ==
    [k \in {"vessel_name", "daily_hire_rate_usd", "charter_period_months",
            "year_built", "contract_date", "next_special_survey",
            "off_hire_threshold_hours"} |->
        CASE k = "vessel_name" -> Str("northern star")
          [] k = "daily_hire_rate_usd" -> Str("$18,500 per day")
          [] k = "charter_period_months" -> Str("24")
          [] k = "year_built" -> Str("2018")
          [] k = "contract_date" -> Str("January 15, 2024")
          [] k = "next_special_survey" -> Str("December 2025")
          [] k = "off_hire_threshold_hours" -> Str("24 consecutive hours")]

OneFieldRecords == UNION {[{f} -> RecordValues] : f \in RecordFields}

\* Records of one field of the uppercase-text group.
TextValues ==
    {None, Str(""), Str("  "), Str("null"), Str("Null"), Str("-"), Str(" - "),
     Str("worldwide trading"), PyInt(0), NaN, PyBool(FALSE)}

TextRecords == UNION {[{f} -> TextValues] : f \in uppercase_text_fields}

\* ---- lists of records for the table builder: two columns of the template,
\* the last and the first of column_order, and the two keys add_contract adds.
TableKeys == {"DWT", "VESSEL NAME", "_source_file", "_processed_at"}

KeyOrders ==
    {<<>>} \cup {<<a>> : a \in TableKeys}
           \cup {<<a, b>> : <<a, b>> \in {p \in TableKeys \X TableKeys : p[1] # p[2]}}

TableValues == {None, PyInt(24)}

TableRecords ==
    UNION {{ODict(keys, val) : val \in [Range(keys) -> TableValues]} : keys \in KeyOrders}
    \cup {ODict(<<"_source_file", "VESSEL NAME">>,
                [k \in {"_source_file", "VESSEL NAME"} |->
                    IF k = "VESSEL NAME" THEN Str("M/V NORTHERN STAR") ELSE Str("a.pdf")]),
           ODict(<<"DWT">>, [k \in {"DWT"} |-> Str("82,500")]),
           ODict(<<"DWT">>, [k \in {"DWT"} |-> Float(825, 1)])}

ContractLists == UNION {[1..n -> TableRecords] : n \in 0..MaxRecords}

\* ---- what the API extracts from a contract: a vessel name and a date
NameAndDate(name, date) ==
    [k \in {"VESSEL NAME", "TCP DATE"} |-> IF k = "VESSEL NAME" THEN name ELSE date]

QueryRaws ==
    {NameAndDate(name, date) :
        name \in {None, Str("northern star"), Str("MT Polar Star")},
        date \in {None, Str("January 15, 2024"), Str("2023-06-30")}}

\* The database after process_single_tcp has succeeded on each record of raws.
RECURSIVE StoredList(_)
StoredList(raws) ==
    IF raws = <<>> THEN <<>>
    ELSE add_contract(StoredList(SubSeq(raws, 1, Len(raws) - 1)),
                      standardize_and_validate(raws[Len(raws)]).d,
                      "tcp" \o NatStr(Len(raws)) \o ".pdf", Len(raws))

StoredLists == {StoredList(raws) : raws \in UNION {[1..n -> QueryRaws] : n \in 0..MaxContracts}}

Queries == {"star", "NORTHERN", "mt ", "x", ""}

\* What the CLI is given: file names, and what the API extracts from each.
FileNames == {"tcp1", "tcp2.pdf"}

CliRaws ==
    {NameAndDate(Str("northern star"), Str("January 15, 2024")),
     NameAndDate(None, Str("2023-06-30")),
     NameAndDate(Str("MT Polar Star"), None),
     [k \in {"DWT"} |-> Inf]}

\* How the steps of processing a file can go.
Steps == {"missing", "text_error", "api_error", "extracted"}

\* How a call of process_pdf_file can go: writing the temporary file may
\* raise, and there is no test for a missing file.
UploadSteps == {"write_error", "text_error", "api_error", "extracted"}

\* What the API extracts from a file of a batch: a record that standardizes
\* and one whose standardization raises.
BatchRaws == {NameAndDate(Str("northern star"), Str("January 15, 2024")), [k \in {"DWT"} |-> Inf]}

\* How a file of a batch can fail before standardization: it has gone since
\* the glob, or a step raises.
BatchFailures == {"missing", "api_error"}

\* How a file of a batch goes.
BatchFile ==
    {[step |-> step, raw |-> <<>>] : step \in BatchFailures}
        \cup {[step |-> "extracted", raw |-> raw] : raw \in BatchRaws}

\* The name of the i-th file a glob finds.
BatchName(i) == "tcp" \o NatStr(i) \o ".pdf"

\* The files a glob finds: up to MaxFiles files with different names, each
\* with how its steps go.
Batches ==
    {[i \in DOMAIN files |->
         [name |-> BatchName(i), step |-> files[i].step, raw |-> files[i].raw]] :
        files \in UNION {[1..n -> BatchFile] : n \in 0..MaxFiles}}

\* The dicts a user of the database hands to add_contract.
DbContracts ==
    {<<>>,
     [k \in {"VESSEL NAME"} |-> Str("MT POLAR STAR")],
     [k \in {"vessel_name", "contract_date"} |->
         IF k = "vessel_name" THEN Str("Northern Star") ELSE Str("2024-01-15")],
     [k \in {"vessel_name", "_source_file"} |->
         IF k = "vessel_name" THEN Str("Polar Star") ELSE Str("old.pdf")]}

\* ---- every normalizer
CommonInputs ==
    Strs(AbsentStrings
         \cup Padded({"-", "yes", "N/A.", "maybe", "A@B.co", "a@b", "northern star",
                      "MV X", "2024-01-15", "Jan 5, 2024", "82,500 metric tons",
                      "12.345", "a  b"}))
    \cup Numbers \cup Booleans \cup {None}

(***************************************************************************)
(* extract_contract_data (src/main.py): the retry loop around the API call. *)
(***************************************************************************)
\* What one request to the API does: it raises, or it answers with a text.
ApiRaises(msg) == [kind |-> "raise", msg |-> msg]

ApiAnswers(text) == [kind |-> "text", text |-> text]

\* The three backquotes of a Markdown code fence. A TLA+ string cannot hold a
\* backquote; in the texts of the model "~" stands for it.
Fence == "~~~"

EndsWith(s, p) == Len(p) <= Len(s) /\ SubSeq(s, Len(s) - Len(p) + 1, Len(s)) = p

\* re.sub(r'^```(?:json)?\s*\n', '', s): the fence, an optional "json", and the
\* whitespace after it up to its last newline; nothing when that whitespace
\* holds no newline.
StripOpeningFence(s) ==
    IF ~StartsWith(s, Fence) THEN s
    ELSE LET after == IF StartsWith(Drop(s, 3), "json") THEN Drop(s, 7) ELSE Drop(s, 3)
             newlines == {i \in 1..LeadingSpaces(after) : CharAt(after, i) = "\n"}
         IN  IF newlines = {} THEN s
             ELSE Drop(after, CHOOSE i \in newlines : \A j \in newlines : j <= i)

\* re.sub(r'\n```\s*$', '', s): a newline and a fence with nothing but
\* whitespace after them.
StripClosingFence(s) ==
    IF EndsWith(RStrip(s), "\n" \o Fence) THEN SubSeq(s, 1, Len(RStrip(s)) - 4) ELSE s

\* Lines 207-216: the text json.loads is given.
ResponseText(text) ==
    LET stripped == Strip(text)
    IN  IF StartsWith(stripped, Fence)
        THEN Strip(StripClosingFence(StripOpeningFence(stripped)))
        ELSE stripped

\* The value of a JSON array, which is no dict.
PyList(items) == [t |-> "list", items |-> items]

\* json.loads on the texts the API of the model answers with; any other text
\* is no JSON document.
JsonLoads(text) ==
    CASE text = "{\"VESSEL NAME\": \"northern star\"}" ->
             Dict([k \in {"VESSEL NAME"} |-> Str("northern star")])
      [] text = "{\"DWT\": 82500, \"TRADE\": null}" ->
             Dict([k \in {"DWT", "TRADE"} |-> IF k = "DWT" THEN PyInt(82500) ELSE None])
      [] text = "{}" -> Dict(<<>>)
      [] text = "[]" -> PyList(<<>>)
      [] text = "null" -> None
      [] OTHER -> Raised("JSONDecodeError")

\* One pass of the try block (lines 183-226) on what the API did: the dict
\* returned at line 226, or the exception one of the handlers catches.
TryAttempt(api) ==
    IF api.kind = "raise" THEN Raised(api.msg)
    ELSE LET contract_data == JsonLoads(ResponseText(api.text))
         IN  IF contract_data.t = "raise" THEN contract_data
             ELSE IF contract_data.t # "dict" \/ DOMAIN contract_data.d = {}
                  THEN Raised("Received empty or invalid data structure from Claude")
                  ELSE contract_data

\* Lines 229 and 235: what the handlers store in last_error.
ErrorText(e) ==
    IF e.exc = "JSONDecodeError" THEN Str("JSON parsing error") ELSE Str(e.exc)

\* The answers and failures of the API.
ApiBehaviours ==
    {ApiRaises("overloaded"), ApiRaises("list index out of range")}
    \cup {ApiAnswers(text) :
            text \in {"{\"VESSEL NAME\": \"northern star\"}",
                      " {\"DWT\": 82500, \"TRADE\": null}\n",
                      "~~~json\n{\"VESSEL NAME\": \"northern star\"}\n~~~",
                      "~~~\n{}\n~~~", "{}", "[]", "null", "",
                      "Here is the data: {}", "~~~json {}~~~"}}

\* The raw records of concurrent callers.
CallRaws ==
    {<<>>,
     [k \in {"TCP DATE", "DWT", "BROKERS EMAIL"} |->
         CASE k = "DWT" -> Str("82,500 mt")
           [] k = "BROKERS EMAIL" -> Str(" A@B.co ")
           [] OTHER -> Str("January 15, 2024")],
     [k \in {"VESSEL NAME", "TRADE", "CAN OFFHIRE BE ADDED?(CL 4(B))", "CURRENT TC RATE(CL 8)"} |->
         CASE k = "TRADE" -> Str("-")
           [] k = "CAN OFFHIRE BE ADDED?(CL 4(B))" -> Str("yes")
           [] k = "CURRENT TC RATE(CL 8)" -> Str(" 35,000 ")
           [] OTHER -> Str("northern star")],
     [k \in {"DWT", "TCP DATE", "contract_number"} |->
         CASE k = "DWT" -> Inf
           [] k = "TCP DATE" -> None
           [] OTHER -> Str("x")]}

\* The concurrent calls.
Calls == 1..MaxCalls

\* The values of max_retries a caller passes.
RetryCounts == -1..MaxRetries

\* Nothing but the normalizers is in use.
TableIdle ==
    /\ contracts = <<>>
    /\ df = NoCall

CliIdle ==
    /\ db = <<>>
    /\ session = <<>>
    /\ op = ""
    /\ query_name = ""
    /\ returned = NoCall
    /\ clock = 0
    /\ added = <<>>
    /\ outcome = ""
    /\ pdf_files = <<>>
    /\ failed = <<>>
    /\ tmp_files = {}
    /\ tmp_path = 0

ExtractIdle ==
    /\ max_retries = 0
    /\ attempt = 0
    /\ requests = 0
    /\ outcomes = <<>>
    /\ response_text = NoCall
    /\ last_error = None
    /\ extracted = NoCall

CallsIdle ==
    /\ heap = <<>>
    /\ frames = <<>>

OutsideIdle == TableIdle /\ CliIdle /\ ExtractIdle /\ CallsIdle

(***************************************************************************)
(* The state machine: a caller holds a raw value and a raw record and      *)
(* calls the operations of TCPDataStandardizer on them.                    *)
(***************************************************************************)
InitWith(args, raws, pads) ==
    /\ arg \in args
    /\ raw_data \in raws
    /\ pad_year \in pads
    /\ fn = ""
    /\ ret = NoCall
    /\ standardized = NoCall
    /\ OutsideIdle

CallStandardizeDate ==
    /\ fn' = "standardize_date"
    /\ ret' = standardize_date(arg)
    /\ UNCHANGED <<arg, raw_data, standardized, pad_year, outside>>

CallStandardizeVesselName ==
    /\ fn' = "standardize_vessel_name"
    /\ ret' = standardize_vessel_name(arg)
    /\ UNCHANGED <<arg, raw_data, standardized, pad_year, outside>>

CallExtractNumericValue ==
    /\ fn' = "extract_numeric_value"
    /\ ret' = extract_numeric_value(arg)
    /\ UNCHANGED <<arg, raw_data, standardized, pad_year, outside>>

CallStandardizeCurrency ==
    /\ fn' = "standardize_currency"
    /\ ret' \in standardize_currency(arg, 2)
    /\ UNCHANGED <<arg, raw_data, standardized, pad_year, outside>>

CallStandardizeText ==
    /\ fn' = "standardize_text"
    /\ ret' = standardize_text(arg)
    /\ UNCHANGED <<arg, raw_data, standardized, pad_year, outside>>

CallStandardizeEmail ==
    /\ fn' = "standardize_email"
    /\ ret' = standardize_email(arg)
    /\ UNCHANGED <<arg, raw_data, standardized, pad_year, outside>>

CallStandardizeBoolean ==
    /\ fn' = "standardize_boolean"
    /\ ret' = standardize_boolean(arg)
    /\ UNCHANGED <<arg, raw_data, standardized, pad_year, outside>>

CallStandardizeContractData ==
    /\ standardized' = standardize_contract_data(raw_data)
    /\ UNCHANGED <<fn, arg, ret, raw_data, pad_year, outside>>

CallCreateColumnarDataframe ==
    /\ df' = create_columnar_dataframe(contracts)
    /\ UNCHANGED <<fn, arg, ret, raw_data, standardized, pad_year, contracts, cliVars,
                   extractVars, callVars>>

\* process_single_tcp, called with any file name.
ProcessSingleTcp ==
    /\ clock < MaxContracts
    /\ \E filename \in FileNames, raw \in CliRaws, step \in Steps :
          \E single \in {process_single_tcp(db, filename, step, raw, clock + 1)} :
              /\ db' = single.db
              /\ returned' = single.ret
              /\ clock' = IF single.handed # <<>> THEN clock + 1 ELSE clock
              /\ added' = added \o single.handed
              /\ outcome' = single.outcome
    /\ op' = "process_single_tcp"
    /\ UNCHANGED <<fn, arg, ret, raw_data, standardized, pad_year, tableVars, extractVars, callVars,
                   session, query_name, batchVars, webVars>>

\* process_all_tcps: every file the glob of line 134 found is processed.
ProcessAllTcps ==
    /\ \E files \in Batches :
          /\ clock + Len(files) <= MaxContracts
          /\ \E all \in {process_all_tcps(db, files, clock)} :
                 /\ db' = all.db
                 /\ returned' = all.successful
                 /\ failed' = all.failed
                 /\ clock' = all.clock
                 /\ added' = added \o all.added
                 /\ outcome' = all.outcome
          /\ pdf_files' = [i \in DOMAIN files |-> files[i].name]
    /\ op' = "process_all_tcps"
    /\ UNCHANGED <<fn, arg, ret, raw_data, standardized, pad_year, tableVars, extractVars, callVars,
                   session, query_name, webVars>>

\* TCPDatabase.add_contract, called by any user of the database.
AddContract ==
    /\ clock < MaxAdds
    /\ \E contract_data \in DbContracts, filename \in FileNames :
          /\ db' = add_contract(db, contract_data, filename, clock + 1)
          /\ added' = Append(added, Handed(contract_data, filename))
    /\ clock' = clock + 1
    /\ op' = "add_contract"
    /\ returned' = None
    /\ UNCHANGED <<fn, arg, ret, raw_data, standardized, pad_year, tableVars, extractVars, callVars,
                   session, query_name, outcome, batchVars, webVars>>

\* TCPDatabase.get_all_contracts
GetAllContracts ==
    /\ op' = "get_all_contracts"
    /\ returned' = db
    /\ UNCHANGED <<fn, arg, ret, raw_data, standardized, pad_year, tableVars, extractVars, callVars,
                   db, session, query_name, clock, added, outcome, batchVars, webVars>>

\* One pass of the upload loop (streamlit_app.py, lines 180-198): it calls
\* process_pdf_file, which writes the upload to a new temporary file (line
\* 48 may raise), runs the three steps and unlinks the file in its finally
\* clause; the loop appends what the call returned and catches what it raised.
ProcessUpload ==
    /\ tmp_path < MaxContracts
    /\ \E name \in FileNames, raw \in CliRaws, step \in UploadSteps :
          LET tmp == tmp_path + 1
              standardized_ == standardize_and_validate(raw)
              contract_data ==
                  SetItem(SetItem(standardized_.d, "_source_file", Str(name)),
                          "_processed_at", IsoNow(clock + 1))
          IN  /\ tmp_path' = tmp
              /\ outcome' = OutcomeOf(step, standardized_)
              /\ tmp_files' = IF step = "write_error" THEN tmp_files \cup {tmp}
                                                      ELSE (tmp_files \cup {tmp}) \ {tmp}
              /\ IF outcome' = "ok"
                 THEN /\ returned' = Dict(contract_data)
                      /\ session' = Append(session, contract_data)
                      /\ clock' = clock + 1
                 ELSE /\ returned' = Raised(outcome')
                      /\ UNCHANGED <<session, clock>>
    /\ op' = "process_pdf_file"
    /\ UNCHANGED <<fn, arg, ret, raw_data, standardized, pad_year, tableVars, extractVars, callVars,
                   db, query_name, added, batchVars>>

QueryByVesselName ==
    /\ \E q \in Queries :
          /\ query_name' = q
          /\ returned' = query_by_vessel_name(db, q)
    /\ op' = "query_by_vessel_name"
    /\ UNCHANGED <<fn, arg, ret, raw_data, standardized, pad_year, tableVars, extractVars, callVars,
                   db, session, clock, added, outcome, batchVars, webVars>>

FilterContractsByVessel ==
    /\ \E q \in Queries :
          /\ query_name' = q
          /\ returned' = filter_contracts_by_vessel(session, q)
    /\ op' = "filter_contracts_by_vessel"
    /\ UNCHANGED <<fn, arg, ret, raw_data, standardized, pad_year, tableVars, extractVars, callVars,
                   db, session, clock, added, outcome, batchVars, webVars>>

\* TCPDatabase.clear
Clear ==
    /\ db' = <<>>
    /\ added' = <<>>
    /\ op' = "clear"
    /\ returned' = None
    /\ UNCHANGED <<fn, arg, ret, raw_data, standardized, pad_year, tableVars, extractVars, callVars,
                   session, query_name, clock, outcome, batchVars, webVars>>

\* A slip: the loop goes on after an attempt has succeeded.
InRetryLoopUntilRaise == attempt >= 1 /\ extracted.t # "raise"

\* The call is inside the loop of line 182, before the request of an attempt.
InRetryLoop == attempt >= 1 /\ extracted = NoCall

\* extract_contract_data is called (the API key is set): lines 90-182. When
\* range(1, max_retries + 1) is empty the loop body never runs and the
\* function ends without a return statement.
CallExtractContractData ==
    /\ ~InRetryLoop
    /\ \E n \in RetryCounts :
          /\ max_retries' = n
          /\ attempt' = IF n >= 1 THEN 1 ELSE 0
          /\ extracted' = IF n >= 1 THEN NoCall ELSE None
    /\ requests' = 0
    /\ outcomes' = <<>>
    /\ response_text' = NoCall
    /\ last_error' = None
    /\ UNCHANGED <<fn, arg, ret, raw_data, standardized, pad_year, tableVars, cliVars,
                   callVars>>

\* One attempt of the loop: lines 183-242.
Attempt ==
    /\ InRetryLoop
    /\ \E api \in ApiBehaviours :
          LET tried == TryAttempt(api)
          IN  /\ requests' = requests + 1
              /\ outcomes' = Append(outcomes, IF tried.t = "dict" THEN "ok" ELSE "failed")
              /\ response_text' = IF api.kind = "text" THEN Str(ResponseText(api.text))
                                                       ELSE response_text
              /\ IF tried.t = "dict"
                 THEN /\ extracted' = tried
                      /\ UNCHANGED <<attempt, last_error>>
                 ELSE /\ last_error' = ErrorText(tried)
                      /\ IF attempt = max_retries
                         THEN /\ extracted' = Raised("Exception")
                              /\ UNCHANGED attempt
                         ELSE /\ attempt' = attempt + 1
                              /\ UNCHANGED extracted
    /\ UNCHANGED <<fn, arg, ret, raw_data, standardized, pad_year, tableVars, cliVars,
                   callVars, max_retries>>

\* Call c enters standardize_contract_data with its raw record: line 255.
Enter(c) ==
    /\ frames[c].pc = 0
    /\ LET new == NewObject(heap, Len(frames))
           busy == {o \in Calls : frames[o].pc \in 1..AtReturn}
       IN  /\ heap' = [i \in 1..(IF new > Len(heap) THEN new ELSE Len(heap)) |->
                           IF i = new THEN <<>> ELSE heap[i]]
           /\ frames' = [o \in Calls |->
                  IF o = c THEN [frames[c] EXCEPT !.standardized = new, !.pc = 1,
                                                  !.overlapped = busy # {}]
                  ELSE IF o \in busy THEN [frames[o] EXCEPT !.overlapped = TRUE]
                  ELSE frames[o]]
    /\ UNCHANGED <<fn, arg, ret, raw_data, standardized, pad_year, tableVars, cliVars,
                   extractVars>>

\* Call c runs its next branch: the fields of the branch that are keys of the
\* raw record are standardized and stored.
Branch(c) ==
    /\ frames[c].pc \in 1..Len(BranchFields)
    /\ LET frame == frames[c]
           raw == heap[frame.raw_data]
           vals == [field \in BranchFields[frame.pc] \cap DOMAIN raw |->
                       FieldValue(field, raw[field])]
       IN  IF \E field \in DOMAIN vals : vals[field].t = "raise"
           THEN /\ frames' = [frames EXCEPT ![c].pc = Ended,
                                            ![c].ret = Raised("OverflowError")]
                /\ UNCHANGED heap
           ELSE /\ heap' = [heap EXCEPT ![WrittenObject(frame)] = Store(@, vals)]
                /\ frames' = [frames EXCEPT ![c].pc = @ + 1]
    /\ UNCHANGED <<fn, arg, ret, raw_data, standardized, pad_year, tableVars, cliVars,
                   extractVars>>

\* Call c returns standardized: line 333.
Return(c) ==
    /\ frames[c].pc = AtReturn
    /\ frames' = [frames EXCEPT ![c].pc = Ended, ![c].ret = Ref(frames[c].standardized)]
    /\ UNCHANGED <<fn, arg, ret, raw_data, standardized, pad_year, tableVars, cliVars,
                   extractVars, heap>>

\* Every operation: the normalizers on a raw value, standardize_contract_data
\* on a record of one field.
Init ==
    \/ InitWith(CommonInputs, {<<>>}, BOOLEAN)
    \/ InitWith({None}, OneFieldRecords, BOOLEAN)

Next ==
    \/ CallStandardizeDate
    \/ CallStandardizeVesselName
    \/ CallExtractNumericValue
    \/ CallStandardizeCurrency
    \/ CallStandardizeText
    \/ CallStandardizeEmail
    \/ CallStandardizeBoolean
    \/ CallStandardizeContractData

Spec == Init /\ [][Next]_vars

\* standardize_contract_data on raw records of up to MaxFields fields.
InitContract == InitWith({None}, RawRecords \cup {SnakeCaseRecord}, BOOLEAN)

NextContract == CallStandardizeContractData

SpecContract == InitContract /\ [][NextContract]_vars

\* standardize_date on date texts.
InitDate == InitWith(DateInputs, {<<>>}, BOOLEAN)

NextDate == CallStandardizeDate

SpecDate == InitDate /\ [][NextDate]_vars

\* standardize_vessel_name on vessel names (strftime plays no part).
InitVessel == InitWith(VesselInputs, {<<>>}, {FALSE})

NextVessel == CallStandardizeVesselName

SpecVessel == InitVessel /\ [][NextVessel]_vars

\* extract_numeric_value and standardize_currency on numeric texts.
InitNumeric == InitWith(NumericInputs, {<<>>}, {FALSE})

NextNumeric == CallExtractNumericValue \/ CallStandardizeCurrency

SpecNumeric == InitNumeric /\ [][NextNumeric]_vars

\* standardize_email on addresses (strftime plays no part).
InitEmail == InitWith(EmailInputs, {<<>>}, {FALSE})

NextEmail == CallStandardizeEmail

SpecEmail == InitEmail /\ [][NextEmail]_vars

\* standardize_contract_data on records of one uppercase-text field.
InitText == InitWith({None}, TextRecords, {FALSE})

NextText == CallStandardizeContractData

SpecText == InitText /\ [][NextText]_vars

\* create_columnar_dataframe on lists of up to MaxRecords records.
InitTable ==
    /\ fn = ""
    /\ arg = None
    /\ ret = NoCall
    /\ raw_data = <<>>
    /\ standardized = NoCall
    /\ pad_year = FALSE
    /\ contracts \in ContractLists
    /\ df = NoCall
    /\ CliIdle
    /\ ExtractIdle
    /\ CallsIdle

NextTable == CallCreateColumnarDataframe

SpecTable == InitTable /\ [][NextTable]_vars

\* The normalizers at rest.
StandardizerIdle ==
    /\ fn = ""
    /\ arg = None
    /\ ret = NoCall
    /\ raw_data = <<>>
    /\ standardized = NoCall
    /\ pad_year = FALSE

\* The two queries on the contracts the CLI and the web app hold after the
\* same files were processed.
InitQuery ==
    /\ StandardizerIdle
    /\ TableIdle
    /\ ExtractIdle
    /\ CallsIdle
    /\ db \in StoredLists
    /\ session = db
    /\ op = ""
    /\ query_name = ""
    /\ returned = NoCall
    /\ clock = Len(db)
    /\ added = [i \in DOMAIN db |-> Handed(db[i], db[i]["_source_file"].s)]
    /\ outcome = ""
    /\ pdf_files = <<>>
    /\ failed = <<>>
    /\ tmp_files = {}
    /\ tmp_path = 0

NextQuery == QueryByVesselName \/ FilterContractsByVessel

SpecQuery == InitQuery /\ [][NextQuery]_vars

\* The CLI: files are processed, the database queried and cleared.
InitCli == StandardizerIdle /\ OutsideIdle

NextCli == ProcessSingleTcp \/ QueryByVesselName \/ Clear

SpecCli == InitCli /\ [][NextCli]_vars

\* The database under any sequence of its four operations.
InitDb == StandardizerIdle /\ OutsideIdle

NextDb == AddContract \/ QueryByVesselName \/ GetAllContracts \/ Clear

SpecDb == InitDb /\ [][NextDb]_vars

\* The CLI processing whole directories.
InitBatch == StandardizerIdle /\ OutsideIdle

NextBatch == ProcessAllTcps \/ ProcessSingleTcp \/ Clear

SpecBatch == InitBatch /\ [][NextBatch]_vars

\* The web app: uploads are processed and the session list is searched.
InitWeb == StandardizerIdle /\ OutsideIdle

NextWeb == ProcessUpload \/ FilterContractsByVessel

SpecWeb == InitWeb /\ [][NextWeb]_vars

\* extract_contract_data against every behaviour of the API.
InitExtract == StandardizerIdle /\ OutsideIdle

NextExtract == CallExtractContractData \/ Attempt

SpecExtract == InitExtract /\ [][NextExtract]_vars

\* Concurrent calls of standardize_contract_data, each on its own raw record:
\* object c of the heap is the raw record of call c.
InitCalls ==
    /\ StandardizerIdle
    /\ TableIdle
    /\ CliIdle
    /\ ExtractIdle
    /\ heap \in [Calls -> CallRaws]
    /\ frames = [c \in Calls |-> Frame(c, heap[c])]

NextCalls == \E c \in Calls : Enter(c) \/ Branch(c) \/ Return(c)

SpecCalls == InitCalls /\ [][NextCalls]_vars

(***************************************************************************)
(* What the claims say, in terms of their own.                             *)
(***************************************************************************)
\* The spec's absence rule: null, an empty or whitespace-only string, or the
\* string "null" in any letter case.
SpecAbsent(v) ==
    \/ v = None
    \/ v.t = "str" /\ (\A i \in 1..Len(v.s) : CharAt(v.s, i) \in SpaceSet)
    \/ v.t = "str" /\ Lower(v.s) = "null"

\* Four digits, hyphen, two digits, hyphen, two digits.
IsoForm(s) ==
    /\ Len(s) = 10
    /\ AllChars(SubSeq(s, 1, 4) \o SubSeq(s, 6, 7) \o SubSeq(s, 9, 10), IsDigit)
    /\ SubSeq(s, 5, 5) \o SubSeq(s, 8, 8) = "--"

\* C1: the keys of the record standardize_contract_data returns are exactly the
\* field names that are both in the raw record and in the schema: no schema
\* field missing from the raw record is inserted, no unknown raw field is copied.
C1_KeysAreRawAndSchema ==
    standardized.t = "dict" =>
        /\ DOMAIN standardized.d = (DOMAIN raw_data) \cap SchemaFields
        /\ \A f \in SchemaFields \ DOMAIN raw_data : f \notin DOMAIN standardized.d
        /\ \A f \in (DOMAIN raw_data) \ SchemaFields : f \notin DOMAIN standardized.d

\* C1's case: a record was returned for a raw record that holds a schema field
\* and an unknown field, and lacks other schema fields.
C1_Witness ==
    /\ standardized.t = "dict"
    /\ "contract_number" \in DOMAIN raw_data
    /\ "VESSEL NAME" \in DOMAIN raw_data
    /\ DOMAIN standardized.d = {"VESSEL NAME"}

\* C2: no normalizer and no call of standardize_contract_data raises, whatever
\* string, number or null the raw value is.
C2_NeverRaises == ret.t # "raise" /\ standardized.t # "raise"

\* C3: a raw value that is null, an empty or whitespace-only string, or "null"
\* in any letter case is absent for every field kind: every normalizer, and
\* every field branch of standardize_contract_data, returns None for it.
C3_AbsentGivesNone ==
    /\ (fn # "" /\ SpecAbsent(arg)) => ret = None
    /\ standardized.t = "dict" =>
          \A f \in DOMAIN standardized.d :
              SpecAbsent(raw_data[f]) => standardized.d[f] = None

\* C4: standardize_date is the identity on every input already of the form
\* YYYY-MM-DD (four digits, hyphen, two digits, hyphen, two digits): the string
\* returned equals the input string.
C4_IsoIsIdentity ==
    (fn = "standardize_date" /\ arg.t = "str" /\ IsoForm(arg.s)) => ret = arg

\* C4's case: an input of the ISO form that names no date of the calendar came
\* back unchanged.
C4_Witness ==
    /\ fn = "standardize_date"
    /\ arg = Str("2024-13-32")
    /\ ret = arg

\* A format that names the month and gives the day.
NamedMonthFormat(f) == (Contains(f, "%B") \/ Contains(f, "%b")) /\ Contains(f, "%d")

\* A format that gives the month as a number.
NumericFormat(f) == Contains(f, "%m")

\* The three parts of a text a/b/YYYY, a and b of one or two digits: the set
\* holding them as numbers, empty for any other text.
SlashDate(s) ==
    {[a |-> DigitsVal(SubSeq(s, 1, i - 1)),
      b |-> DigitsVal(SubSeq(s, i + 1, j - 1)),
      y |-> DigitsVal(SubSeq(s, j + 1, Len(s)))] :
        <<i, j>> \in {<<i, j>> \in (2..3) \X (4..6) :
                        /\ j - i \in 2..3
                        /\ Len(s) = j + 4
                        /\ CharAt(s, i) = "/"
                        /\ CharAt(s, j) = "/"
                        /\ AllChars(SubSeq(s, 1, i - 1) \o SubSeq(s, i + 1, j - 1)
                                        \o SubSeq(s, j + 1, Len(s)), IsDigit)}}

\* A date of the calendar.
IsDate(y, m, d) == y \in 1..9999 /\ m \in 1..12 /\ d \in 1..DaysIn(y, m)

\* The ISO text of a date, as the platform's strftime writes it.
IsoText(y, m, d) == strftime_ymd([Y |-> y, m |-> m, d |-> d])

\* C5: standardize_date tries the explicit patterns in the order of
\* DATE_FORMATS and returns the result of the first that parses: the
\* named-month patterns come before every numeric pattern, and a numeric
\* a/b/YYYY text is read day-first whenever that is a date, month-first only
\* when the day-first reading fails.
C5_FirstPatternWins ==
    (fn = "standardize_date" /\ arg.t = "str" /\ ~IsoForm(Strip(arg.s))) =>
        LET s == Strip(arg.s)
            F == DATE_FORMATS
        IN  /\ \A i, j \in 1..Len(F) :
                  (NamedMonthFormat(F[i]) /\ NumericFormat(F[j])) => i < j
            /\ \A i \in 1..Len(F) :
                  (/\ strptime(s, F[i]) # {}
                   /\ \A j \in 1..(i - 1) : strptime(s, F[j]) = {})
                  => \E b \in strptime(s, F[i]) : ret = Str(strftime_ymd(b))
            /\ \A p \in SlashDate(s) :
                  IF IsDate(p.y, p.b, p.a) THEN ret = Str(IsoText(p.y, p.b, p.a))
                  ELSE IsDate(p.y, p.a, p.b) => ret = Str(IsoText(p.y, p.a, p.b))

\* C5's case: a text a/b/YYYY that is a date read either way came back read
\* day-first.
C5_Witness ==
    /\ fn = "standardize_date"
    /\ arg = Str("01/02/2024")
    /\ ret = Str("2024-02-01")

\* Where a "<full month name> <4-digit year>" phrase starts in s: the month
\* name in any letter case, whitespace, four digits.
PhraseAt(s, i, m) ==
    LET n == Len(MonthNames[m])
    IN  /\ i + n - 1 <= Len(s)
        /\ Lower(SubSeq(s, i, i + n - 1)) = Lower(MonthNames[m])
        /\ \E k \in 1..Len(s) :
              /\ i + n + k + 3 <= Len(s)
              /\ AllChars(SubSeq(s, i + n, i + n + k - 1), IsSpace)
              /\ AllChars(SubSeq(s, i + n + k, i + n + k + 3), IsDigit)

\* The year of the phrase that starts at i with month m.
PhraseYear(s, i, m) ==
    LET n == Len(MonthNames[m])
        k == CHOOSE k \in 1..Len(s) :
                /\ AllChars(SubSeq(s, i + n, i + n + k - 1), IsSpace)
                /\ ~IsSpace(CharAt(s, i + n + k))
    IN  DigitsVal(SubSeq(s, i + n + k, i + n + k + 3))

\* The phrases of s, each with where it starts.
Phrases(s) == {<<i, m>> \in (1..Len(s)) \X (1..12) : PhraseAt(s, i, m)}

\* The first phrase of s.
FirstPhrase(s) == CHOOSE p \in Phrases(s) : \A q \in Phrases(s) : p[1] <= q[1]

\* Where a bare 4-digit year beginning with 19 or 20 stands in s: no letter,
\* digit or underscore touches it.
BareYearAt(s, i) ==
    /\ i + 3 <= Len(s)
    /\ AllChars(SubSeq(s, i, i + 3), IsDigit)
    /\ SubSeq(s, i, i + 1) \in {"19", "20"}
    /\ \A j \in {i - 1, i + 4} \cap (1..Len(s)) : ~IsWord(CharAt(s, j))

BareYears(s) == {i \in 1..Len(s) : BareYearAt(s, i)}

\* The text the call works on, and whether it reaches the fallbacks: the value
\* is not taken for absent, is not of the ISO form, and no pattern of
\* DATE_FORMATS parses it.
DateText == Strip(PyStr(arg))

NoPatternMatches ==
    /\ fn = "standardize_date"
    /\ ~(Falsy(arg) \/ EqNull(arg) \/ isna(arg))
    /\ ~IsoForm(DateText)
    /\ \A i \in 1..Len(DATE_FORMATS) : strptime(DateText, DATE_FORMATS[i]) = {}

\* January 1 of the first bare year of s, absence when there is none.
BareYearResult(s) ==
    IF BareYears(s) # {}
    THEN LET i == CHOOSE i \in BareYears(s) : \A j \in BareYears(s) : i <= j
         IN  Str(SubSeq(s, i, i + 3) \o "-01-01")
    ELSE None

\* The first day of the month of phrase p of s.
PhraseResult(s, p) ==
    Str(FmtYear(PhraseYear(s, p[1], p[2])) \o "-" \o ZeroPad(NatStr(p[2]), 2) \o "-01")

\* C6, as stated: when no full-date pattern matches, an embedded "<full month
\* name> <4-digit year>" phrase gives the first day of that month; otherwise a
\* bare 4-digit year beginning with 19 or 20 gives January 1 of that year;
\* otherwise the result is absence.
C6_FallbackOrder_AsStated ==
    NoPatternMatches =>
        IF Phrases(DateText) # {}
        THEN ret = PhraseResult(DateText, FirstPhrase(DateText))
        ELSE ret = BareYearResult(DateText)

\* C6, amended: when no full-date pattern matches, the first embedded "<full
\* month name> <4-digit year>" phrase gives the first day of that month unless
\* its year is 0000; when there is no phrase, or the first has the year 0000, a
\* bare 4-digit year beginning with 19 or 20 gives January 1 of that year;
\* otherwise the result is absence.
C6_FallbackOrder ==
    NoPatternMatches =>
        IF /\ Phrases(DateText) # {}
           /\ PhraseYear(DateText, FirstPhrase(DateText)[1], FirstPhrase(DateText)[2]) # 0
        THEN ret = PhraseResult(DateText, FirstPhrase(DateText))
        ELSE ret = BareYearResult(DateText)

\* C6's case: no pattern matched a text that holds a month-year phrase and a
\* bare year, and the phrase's month came back.
C6_Witness ==
    /\ NoPatternMatches
    /\ arg = Str("On or about march 2024 approx")
    /\ BareYears(DateText) # {}
    /\ ret = Str("2024-03-01")

\* The name a call of standardize_vessel_name is given, uppercased, trimmed
\* and with every whitespace run made one space.
VesselText == CollapseWs(Upper(Strip(arg.s)))

\* A call of standardize_vessel_name on a name the spec does not call absent.
VesselCall ==
    fn = "standardize_vessel_name" /\ arg.t = "str" /\ ~SpecAbsent(arg)

\* The name starts with one of the prefix tokens, or holds one of the
\* company-entity keywords.
StartsWithPrefixToken(u) ==
    \E p \in {"M/V", "MT", "MV", "M.V.", "S.S.", "SS"} : StartsWith(u, p)

HoldsCompanyKeyword(u) ==
    \E k \in {"LTD", "INC", "CORP", "COMPANY", "HOLDINGS", "AS", "SA", "LLC"} :
        Contains(u, k)

\* C7: standardize_vessel_name uppercases the name, collapses whitespace runs
\* to one space, and prepends "M/V " exactly when the name does not start with
\* a recognized prefix token (M/V, MT, MV, M.V., S.S., SS) and does not contain
\* a company-entity keyword (LTD, INC, CORP, COMPANY, HOLDINGS, AS, SA, LLC); a
\* name it prepends nothing to and whose prefix has no other spelling to be
\* rewritten comes back as the uppercased, collapsed name.
C7_PrependsExactlyWhen ==
    VesselCall =>
        /\ ret.t = "str"
        /\ ret.s = Upper(ret.s)
        /\ ret.s = CollapseWs(ret.s)
        /\ (ret.s = "M/V " \o VesselText)
              <=> (~StartsWithPrefixToken(VesselText) /\ ~HoldsCompanyKeyword(VesselText))
        /\ (/\ StartsWithPrefixToken(VesselText) \/ HoldsCompanyKeyword(VesselText)
            /\ \A p \in {"MT", "MV", "M.V.", "M.T."} : ~StartsWith(VesselText, p))
              => ret.s = VesselText

\* C7's case: a name in lower case with whitespace runs, no prefix and no
\* keyword came back uppercased, collapsed and with "M/V " before it.
C7_Witness ==
    /\ VesselCall
    /\ arg = Str(" northern  star ")
    /\ ret = Str("M/V NORTHERN STAR")

\* C8: after standardize_vessel_name, a name that began with a recognized
\* prefix spelling (M/V, MT, MV, M.V., S.S., SS, M.T.) followed by a space and
\* the rest of the name begins with one of the canonical forms "M/V " or "MT ".
C8_PrefixIsCanonical ==
    VesselCall =>
        ((\E p \in {"M/V", "MT", "MV", "M.V.", "S.S.", "SS", "M.T."} :
              StartsWith(VesselText, p \o " "))
            => (StartsWith(ret.s, "M/V ") \/ StartsWith(ret.s, "MT ")))

\* A call of extract_numeric_value on a string, and the string with the
\* commas, the currency symbols and the whitespace taken out.
NumericCall == fn = "extract_numeric_value" /\ arg.t = "str"

Cleaned ==
    LET Keep(c) == c \notin {",", "$", " ", "\t", "\n", "\r", "\f"}
        kept == SelectSeq([i \in 1..Len(arg.s) |-> CharAt(arg.s, i)], Keep)
        F[i \in 0..Len(kept)] == IF i = 0 THEN "" ELSE F[i - 1] \o kept[i]
    IN  F[Len(kept)]

\* The first optionally-signed integer-or-decimal substring of r, which holds
\* a digit: from the first digit (and a "-" right before it) through the run
\* of digits and, when a "." follows the run, the "." and the digits after it.
FirstNumber(r) ==
    LET i == CHOOSE i \in 1..Len(r) :
                IsDigit(CharAt(r, i)) /\ \A j \in 1..(i - 1) : ~IsDigit(CharAt(r, j))
        neg == i > 1 /\ CharAt(r, i - 1) = "-"
        whole == DigitRun(Drop(r, i - 1))
        after == Drop(r, i - 1 + Len(whole))
        frac == IF after # "" /\ Head(after) = "." THEN DigitRun(Tail(after)) ELSE ""
        digits == DigitsVal(whole \o frac)
    IN  Float(IF neg THEN -digits ELSE digits, Len(frac))

\* C9: for a string input, extract_numeric_value removes commas, currency
\* symbols and all whitespace, then returns as a float the first
\* optionally-signed integer-or-decimal substring of what remains, and returns
\* absence exactly when what remains holds no digit.
C9_FirstNumberOfCleaned ==
    NumericCall =>
        IF \E i \in 1..Len(Cleaned) : IsDigit(CharAt(Cleaned, i))
        THEN ret = FirstNumber(Cleaned)
        ELSE ret = None

\* C9's case: a number with a thousands separator, followed by words.
C9_Witness ==
    /\ NumericCall
    /\ arg = Str("82,500 metric tons")
    /\ ret = Float(82500, 0)

\* C10: for every raw value that is already a native number (an integer or a
\* finite float, 0 and negative numbers included), extract_numeric_value
\* returns that same number as a float, never absence.
C10_NumberPassesThrough ==
    (fn = "extract_numeric_value" /\ IsNumber(arg) /\ IsFinite(arg)) =>
        /\ ret # None
        /\ ret = (IF arg.t = "int" THEN Float(arg.n, 0) ELSE arg)

\* The positions of character c in s.
PositionsOf(s, c) == {i \in 1..Len(s) : CharAt(s, i) = c}

\* local@domain.tld: one "@", before it a non-empty local part of letters,
\* digits and ._%+-; after it a non-empty domain of letters, digits and .-, a
\* ".", and a top-level domain of at least two letters and nothing else.
IsAddress(s) ==
    /\ Cardinality(PositionsOf(s, "@")) = 1
    /\ LET at == CHOOSE i \in PositionsOf(s, "@") : TRUE
           dots == {i \in PositionsOf(s, ".") : i > at}
       IN  /\ at > 1
           /\ \A i \in 1..(at - 1) :
                 \/ IsAlpha(CharAt(s, i)) \/ IsDigit(CharAt(s, i))
                 \/ CharAt(s, i) \in {".", "_", "%", "+", "-"}
           /\ dots # {}
           /\ LET dot == CHOOSE i \in dots : \A j \in dots : j <= i
              IN  /\ dot > at + 1
                  /\ \A i \in (at + 1)..(dot - 1) :
                        \/ IsAlpha(CharAt(s, i)) \/ IsDigit(CharAt(s, i))
                        \/ CharAt(s, i) \in {".", "-"}
                  /\ Len(s) - dot >= 2
                  /\ \A i \in (dot + 1)..Len(s) : IsAlpha(CharAt(s, i))

\* C11: standardize_email returns either absence or the trimmed, lowercased
\* input, and a value other than absence only when that whole lowercased
\* string is of the form local@domain.tld; it never returns a part or a
\* corrected form of an address that is not.
C11_EmailWholeOrAbsent ==
    fn = "standardize_email" =>
        \/ ret = None
        \/ /\ arg.t = "str"
           /\ ret = Str(Lower(Strip(arg.s)))
           /\ IsAddress(Lower(Strip(arg.s)))

\* C11's case: an address in upper case with spaces around it came back
\* trimmed and in lower case.
C11_Witness ==
    /\ fn = "standardize_email"
    /\ arg = Str(" A@B.co ")
    /\ ret = Str("a@b.co")

\* The word a raw value stands for as a boolean: a string trimmed and in upper
\* case, a native integer as its digits, a native boolean as TRUE or FALSE.
BooleanWord(v) ==
    CASE v.t = "str" -> Upper(Strip(v.s))
      [] v.t = "int" -> PyStr(v)
      [] v.t = "bool" -> (IF v.b THEN "TRUE" ELSE "FALSE")

\* C12: standardize_boolean maps, case-insensitively and after trimming, each
\* of YES, Y, TRUE, 1 to "Yes", each of NO, N, FALSE, 0, N/A, N/A. to "No" and
\* every other value to absence, whether the raw value arrives as a string or
\* as the corresponding native number or boolean.
C12_BooleanMapping ==
    (fn = "standardize_boolean" /\ arg.t \in {"str", "int", "bool"}) =>
        ret = (CASE BooleanWord(arg) \in {"YES", "Y", "TRUE", "1"} -> Str("Yes")
                 [] BooleanWord(arg) \in {"NO", "N", "FALSE", "0", "N/A", "N/A."} -> Str("No")
                 [] OTHER -> None)

\* C13: in standardize_contract_data, for every field of the uppercase-text
\* group a raw value equal to the sentinel "-" is kept as the value "-" in the
\* output, distinct from the absence marker None that null, empty and "null"
\* inputs produce.
C13_DashSentinelKept ==
    standardized.t = "dict" =>
        \A f \in (DOMAIN raw_data) \cap uppercase_text_fields :
            /\ f \in DOMAIN standardized.d
            /\ raw_data[f] = Str("-") => standardized.d[f] = Str("-")
            /\ raw_data[f] \in {None, Str(""), Str("null")} => standardized.d[f] = None

\* C13's case: a record whose 'FLAG' is the sentinel came back with the
\* sentinel under 'FLAG'.
C13_Witness ==
    /\ standardized.t = "dict"
    /\ raw_data = [f \in {"FLAG"} |-> Str("-")]
    /\ standardized.d = [f \in {"FLAG"} |-> Str("-")]

\* C14: standardize_contract_data is idempotent: applied to the record it
\* returned for a raw record, it returns that same record again (same keys,
\* same values), integer fields whose value is 0 included.
C14_Idempotent ==
    standardized.t = "dict" =>
        standardize_contract_data(standardized.d) = standardized

\* Whether record d holds value v under key k.
Holds(d, k, v) == k \in DOMAIN d /\ d[k] = v

\* C15: for the raw record keyed by the snake_case field names,
\* standardize_contract_data returns a record with vessel_name
\* "M/V NORTHERN STAR", daily_hire_rate_usd 18500.00, charter_period_months 24,
\* year_built 2018, contract_date "2024-01-15", next_special_survey
\* "2025-12-01" and off_hire_threshold_hours 24.
C15_SnakeCaseRecord ==
    (raw_data = SnakeCaseRecord /\ standardized # NoCall) =>
        /\ standardized.t = "dict"
        /\ Holds(standardized.d, "vessel_name", Str("M/V NORTHERN STAR"))
        /\ Holds(standardized.d, "daily_hire_rate_usd", Float(18500, 0))
        /\ Holds(standardized.d, "charter_period_months", PyInt(24))
        /\ Holds(standardized.d, "year_built", PyInt(2018))
        /\ Holds(standardized.d, "contract_date", Str("2024-01-15"))
        /\ Holds(standardized.d, "next_special_survey", Str("2025-12-01"))
        /\ Holds(standardized.d, "off_hire_threshold_hours", PyInt(24))

\* A call of create_columnar_dataframe on a non-empty list has returned.
TableCall == contracts # <<>> /\ df # NoCall

\* Where name stands in sequence seq, which holds it.
IndexIn(seq, name) == CHOOSE i \in DOMAIN seq : seq[i] = name

\* Whether key a is seen before key b going through the records in order and
\* through each record's keys in order.
SeenBefore(a, b) ==
    LET At(k) == CHOOSE p \in (DOMAIN contracts) \X (1..Cardinality(DOMAIN df.columns)) :
                    /\ p[2] \in DOMAIN contracts[p[1]].keys
                    /\ contracts[p[1]].keys[p[2]] = k
                    /\ \A i \in 1..(p[1] - 1) : k \notin {contracts[i].keys[j] :
                                                            j \in DOMAIN contracts[i].keys}
    IN  At(a)[1] < At(b)[1] \/ (At(a)[1] = At(b)[1] /\ At(a)[2] < At(b)[2])

SchemaColumn(c) == \E i \in DOMAIN column_order : column_order[i] = c

\* C16: for every non-empty list of records the columns of
\* create_columnar_dataframe are exactly the union of the keys of all records,
\* each once: first the schema-declared columns that occur in a record, in
\* the order of column_order, then every other column in the order it is first
\* seen across the records.
C16_ColumnsAreUnionInOrder ==
    TableCall =>
        LET cols == df.columns
        IN  /\ df.t = "df"
            /\ {cols[i] : i \in DOMAIN cols}
                  = UNION {{contracts[r].keys[j] : j \in DOMAIN contracts[r].keys} :
                              r \in DOMAIN contracts}
            /\ \A i, j \in DOMAIN cols :
                  i < j =>
                     /\ cols[i] # cols[j]
                     /\ SchemaColumn(cols[j]) => SchemaColumn(cols[i])
                     /\ (SchemaColumn(cols[i]) /\ SchemaColumn(cols[j]))
                           => IndexIn(column_order, cols[i]) < IndexIn(column_order, cols[j])
                     /\ (~SchemaColumn(cols[i]) /\ ~SchemaColumn(cols[j]))
                           => SeenBefore(cols[i], cols[j])

\* C16's case: two records whose keys come in an order other than the
\* template's, the keys outside the template first.
C16_Witness ==
    /\ TableCall
    /\ Len(contracts) = 2
    /\ contracts[1].keys = <<"_source_file", "DWT">>
    /\ contracts[2].keys = <<"_processed_at", "VESSEL NAME">>
    /\ df.columns = <<"VESSEL NAME", "DWT", "_source_file", "_processed_at">>

\* An absence value of a table: None or NaN.
AbsentCell(v) == v = None \/ v = NaN

\* Cell v holds value w: the same value, the same number, or both absent.
CellHolds(v, w) ==
    \/ v = w
    \/ w.t = "int" /\ v = Float(w.n, 0)
    \/ AbsentCell(v) /\ AbsentCell(w)

\* C17: create_columnar_dataframe produces exactly one row per input record,
\* in the order of the input list; the cell of record r under column c holds
\* r[c] when r has key c and an absence value when it does not; a record that
\* lacks a column other records have causes no error.
C17_OneRowPerRecord ==
    TableCall =>
        /\ df.t = "df"
        /\ DOMAIN df.rows = DOMAIN contracts
        /\ \A r \in DOMAIN df.rows :
              \A i \in DOMAIN df.columns :
                 LET c == df.columns[i]
                 IN  IF \E j \in DOMAIN contracts[r].keys : contracts[r].keys[j] = c
                     THEN CellHolds(df.rows[r][c], contracts[r].val[c])
                     ELSE AbsentCell(df.rows[r][c])

\* C17's case: each of two records lacks the column the other has.
C17_Witness ==
    /\ TableCall
    /\ Len(contracts) = 2
    /\ contracts[1].keys = <<"DWT">>
    /\ contracts[2].keys = <<"VESSEL NAME">>
    /\ Len(df.rows) = 2
    /\ df.rows[1]["DWT"] = Float(24, 0)
    /\ AbsentCell(df.rows[2]["DWT"])
    /\ AbsentCell(df.rows[1]["VESSEL NAME"])

\* The vessel name and the date of a stored contract: what
\* standardize_contract_data stored under 'VESSEL NAME' and 'TCP DATE'.
VesselOf(contract) == Get(contract, "VESSEL NAME")

DateOf(contract) == Get(contract, "TCP DATE")

\* The contract has a vessel name that holds q, letter case apart.
NameHolds(contract, q) ==
    /\ VesselOf(contract).t = "str"
    /\ VesselOf(contract).s # ""
    /\ Contains(Upper(VesselOf(contract).s), Upper(q))

\* list is exactly the contracts of all whose vessel name holds q, by date
\* descending, the contracts without a date after all those with one.
IsQueryAnswer(list, all, q) ==
    /\ \A c \in Range(all) :
          Cardinality({i \in DOMAIN list : list[i] = c})
             = IF NameHolds(c, q) THEN Cardinality({i \in DOMAIN all : all[i] = c}) ELSE 0
    /\ \A i \in DOMAIN list : \E j \in DOMAIN all : all[j] = list[i]
    /\ \A i, j \in DOMAIN list :
          i < j =>
             \/ DateOf(list[j]) = None
             \/ /\ DateOf(list[i]) # None
                /\ ~StrLess(DateOf(list[i]).s, DateOf(list[j]).s)

\* The web app's half of C18: filter_contracts_by_vessel alone.
FilterAnswersTheQuery ==
    (op = "filter_contracts_by_vessel" /\ query_name # "")
        => IsQueryAnswer(returned, session, query_name)

\* C18: for a non-empty query, query_by_vessel_name and
\* filter_contracts_by_vessel return exactly the contracts whose non-absent
\* vessel name contains the query as a case-insensitive substring, ordered by
\* the date field descending, every contract without a date after all
\* contracts that have one.
C18_QueryAnswer ==
    /\ (op = "query_by_vessel_name" /\ query_name # "")
          => IsQueryAnswer(returned, db, query_name)
    /\ FilterAnswersTheQuery

\* C19: in the CLI, once process_single_tcp has succeeded for a contract whose
\* raw record carries a vessel name, every later query_by_vessel_name(q) with q
\* a (non-empty) case-insensitive substring of the contract's standardized
\* vessel name returns a list that holds the contract, until clear is called:
\* whenever a query has just returned, every contract the database holds whose
\* vessel name holds q is in the list returned.
C19_StoredContractIsFound ==
    (op = "query_by_vessel_name" /\ query_name # "") =>
        \A i \in DOMAIN db :
            NameHolds(db[i], query_name) => \E j \in DOMAIN returned : returned[j] = db[i]

\* C20: for any integer max_retries and any behaviour of the API, a call of
\* extract_contract_data ends in one of two ways: it returns a non-empty dict
\* parsed from the response of one attempt, or it raises after all attempts
\* failed; it never returns anything else, such as None.
C20_ReturnsDictOrRaises ==
    extracted # NoCall =>
        \/ /\ extracted.t = "dict"
           /\ DOMAIN extracted.d # {}
           /\ response_text.t = "str"
           /\ extracted = JsonLoads(response_text.s)
        \/ /\ extracted.t = "raise"
           /\ requests = max_retries
           /\ last_error # None

\* C21: standardize_contract_data never mutates the raw record passed to it:
\* from the call on, the raw record has the keys and the values it had before,
\* and the record returned is a distinct object.
C21_RawRecordUntouched ==
    \A c \in Calls :
        /\ heap[frames[c].raw_data] = frames[c].given
        /\ frames[c].ret.t = "ref" => frames[c].ret.ref # frames[c].raw_data

\* A call has returned a record that differs from its raw record.
C21_Witness ==
    \E c \in Calls :
        /\ frames[c].ret.t = "ref"
        /\ DOMAIN frames[c].given # {}
        /\ heap[frames[c].ret.ref] # frames[c].given

\* C23: under every interleaving of concurrent calls on different raw
\* records, each call returns the record it returns when run alone.
C23_SameAsAlone ==
    \A c \in Calls :
        frames[c].pc = Ended =>
            ResultOf(heap, frames[c]) = standardize_contract_data(frames[c].given)

\* Every call has ended, each ran while another was running, and two of them
\* returned different non-empty records.
C23_Witness ==
    /\ \A c \in Calls : frames[c].pc = Ended /\ frames[c].overlapped
    /\ \E c, o \in Calls :
          /\ frames[c].ret.t = "ref" /\ frames[o].ret.t = "ref"
          /\ heap[frames[c].ret.ref] # <<>>
          /\ heap[frames[o].ret.ref] # <<>>
          /\ heap[frames[c].ret.ref] # heap[frames[o].ret.ref]

\* The canonical type of a field's kind.
IsCanonical(field, v) ==
    CASE field \in date_fields -> v.t = "str" /\ IsoForm(v.s)
      [] field \in numeric_int_fields -> v.t = "int"
      [] field \in rate_fields -> v.t \in {"int", "float"}
      [] field \in email_fields -> v.t = "str" /\ IsAddress(v.s) /\ Lower(v.s) = v.s
      [] field \in boolean_fields -> v \in {Str("Yes"), Str("No")}
      [] OTHER -> /\ v.t = "str"
                  /\ v.s # ""
                  /\ Strip(v.s) = v.s
                  /\ Upper(v.s) = v.s

\* C22: every value of a record standardize_contract_data returns is the
\* absence marker or a value of the canonical type of its field: a YYYY-MM-DD
\* string for a date field, an integer for an integer field, a number for the
\* rate field, a lowercase validated address for an email field, "Yes" or "No"
\* for the boolean field, a non-empty trimmed uppercase string (or "-") for
\* the vessel name and the text fields; an empty string is never a value.
C22_CanonicalValues ==
    standardized.t = "dict" =>
        \A field \in DOMAIN standardized.d :
            \/ standardized.d[field] = None
            \/ IsCanonical(field, standardized.d[field])

\* C24: with max_retries = n >= 1, extract_contract_data issues at most n API
\* requests, one after another, issues no request after the first attempt
\* that yields a non-empty JSON object, and raises only after exactly n failed
\* attempts.
C24_AtMostNRequests ==
    max_retries >= 1 =>
        /\ requests = Len(outcomes)
        /\ requests <= max_retries
        /\ \A i \in 1..(Len(outcomes) - 1) : outcomes[i] = "failed"
        /\ extracted.t = "dict" <=> (outcomes # <<>> /\ outcomes[Len(outcomes)] = "ok")
        /\ extracted.t = "raise" <=>
              (Len(outcomes) = max_retries /\ \A i \in DOMAIN outcomes : outcomes[i] = "failed")

\* A call has returned a dict after a failed attempt, with attempts to spare.
C24_Witness ==
    /\ extracted.t = "dict"
    /\ requests >= 2
    /\ requests < max_retries

\* Texts that embed the full named-month date "February 1, 2024" in other
\* text: no pattern of DATE_FORMATS matches the whole, and the month name is
\* followed by the day, not by the year.
EmbeddedFullDates ==
    {pre \o "February 1, 2024" \o post :
        pre \in {"On or about ", "x"}, post \in {"", " approx"}}

C27_VesselIdempotent ==
    (fn = "standardize_vessel_name" /\ ret.t = "str") =>
        standardize_vessel_name(ret) = ret

\* A name that was given a prefix, and a name whose prefix was rewritten, have
\* been standardized.
C27_Witness ==
    /\ fn = "standardize_vessel_name"
    /\ arg \in {Str("northern star"), Str("M.V. PACIFIC DAWN")}
    /\ ret \in {Str("M/V NORTHERN STAR"), Str("M/V PACIFIC DAWN")}

\* What add_contract stores of a contract it was handed: the contract with
\* both metadata keys set.
StoredOf(handed, contract) ==
    /\ contract = SetItem(SetItem(handed.contract_data, "_source_file", Str(handed.filename)),
                          "_processed_at", contract["_processed_at"])
    /\ contract["_source_file"] = Str(handed.filename)
    /\ contract["_processed_at"].t = "str"

\* C28: after any sequence of add_contract, query_by_vessel_name,
\* get_all_contracts and clear, the contracts list of the database is exactly
\* the contracts added since the last clear, in insertion order, each with
\* _source_file and _processed_at; and a query never reorders or changes the
\* stored list.
C28_ListIsWhatWasAdded ==
    /\ [](/\ Len(db) = Len(added)
          /\ \A i \in DOMAIN db : StoredOf(added[i], db[i]))
    /\ [][op' \in {"query_by_vessel_name", "get_all_contracts"} => db' = db]_vars

\* After a clear, two contracts were added and a query returned them in the
\* other order.
C28_Witness ==
    /\ op = "query_by_vessel_name"
    /\ clock = MaxAdds
    /\ Len(db) = 2
    /\ Len(returned) = 2
    /\ returned[1] = db[2]
    /\ returned[2] = db[1]

\* C29: if a step of process_single_tcp fails (file missing, text extraction
\* error, extraction that exhausts its retries, standardization error) the
\* call returns None and leaves the database as it was; the database changes
\* only when all steps succeeded, and then by exactly one contract appended.
C29_FailureLeavesDatabase ==
    [][op' = "process_single_tcp" =>
          /\ outcome' # "ok" => returned' = None /\ db' = db
          /\ db' # db => /\ outcome' = "ok"
                         /\ Len(db') = Len(db) + 1
                         /\ SubSeq(db', 1, Len(db)) = db
                         /\ returned' = Dict(db'[Len(db')])]_vars

\* A call failed at standardization while the database held a contract.
C29_Witness ==
    /\ op = "process_single_tcp"
    /\ outcome = "standardize_error"
    /\ returned = None
    /\ Len(db) = 1

\* The file name is counted in successful (as the source of a contract).
InSuccessful(name, successful) ==
    \E j \in DOMAIN successful : successful[j]["_source_file"] = Str(name)

\* The file name is counted in failed.
InFailed(name, failures) == \E j \in DOMAIN failures : failures[j] = name

\* C26: process_all_tcps attempts every PDF file found and goes on after a
\* file fails: each file is counted in exactly one of successful and failed,
\* the two lengths add up to the number of files, and the returned list is
\* exactly the contracts this call appended to the database, in processing
\* order.
C26_EveryFileCounted ==
    [][op' = "process_all_tcps" =>
          /\ Len(outcome') = Len(pdf_files')
          /\ Len(returned') + Len(failed') = Len(pdf_files')
          /\ \A i \in DOMAIN pdf_files' :
                 InSuccessful(pdf_files'[i], returned') # InFailed(pdf_files'[i], failed')
          /\ \A i \in DOMAIN pdf_files' :
                 InSuccessful(pdf_files'[i], returned') <=> outcome'[i] = "ok"
          /\ Len(db') = Len(db) + Len(returned')
          /\ SubSeq(db', 1, Len(db)) = db
          /\ returned' = SubSeq(db', Len(db) + 1, Len(db'))]_vars

\* The first of two files failed and the second was processed and stored.
C26_Witness ==
    /\ op = "process_all_tcps"
    /\ Len(pdf_files) = 2
    /\ outcome[1] # "ok"
    /\ failed = <<pdf_files[1]>>
    /\ Len(returned) = 1
    /\ returned[1]["_source_file"] = Str(pdf_files[2])
    /\ db = returned

\* The session list gets a new entry only when the call returned normally,
\* and then the entry is what the call returned.
SessionGrowsOnReturn ==
    [][op' = "process_pdf_file" =>
          IF returned'.t = "dict" THEN session' = Append(session, returned'.d)
                                  ELSE session' = session]_vars

\* Once the upload has been written to the temporary file, the file is gone
\* when the call ends, whatever the three steps do.
RemovedOnceWritten ==
    [][op' = "process_pdf_file" /\ outcome' # "write_error" => tmp_path' \notin tmp_files']_vars

\* C30: process_pdf_file always removes the temporary file it created before
\* it returns or propagates an exception, and the session contract list gets
\* a new entry only when the call returned normally.
C30_TempFileRemoved ==
    [][op' = "process_pdf_file" =>
          /\ tmp_path' \notin tmp_files'
          /\ IF returned'.t = "dict" THEN session' = Append(session, returned'.d)
                                     ELSE session' = session]_vars


====
